---- MODULE Spec2Model ----
(***************************************************************************)
(* Model of the Reachy Mini Ranger perception-to-gaze pipeline.            *)
(*                                                                         *)
(*   - FaceTracker (brain/nodes/perception/face_tracker.py): centroid      *)
(*     tracking with persistent ids, expiry, primary-face selection.       *)
(*   - kinematics (brain/utils/kinematics.py): safety limits.              *)
(*   - execution_node (brain/graph.py): the final safety filter.           *)
(*   - ReachyMiniRanger.run (main.py) and CameraWorker (camera_worker.py): *)
(*     the control loop and the camera worker that publishes offsets.      *)
(*     The worker's pass is modelled twice: as one step (WorkerIteration)  *)
(*     beside the control loop, and step by step with its two locks        *)
(*     beside a thread that calls its getters.                             *)
(*                                                                         *)
(* Units.  The tracker's clock counts whole seconds (track_timeout = 2).   *)
(* Angles are whole degrees.  Confidences are hundredths (1.0 = 100).  Pixel *)
(* centroids are stored doubled (2*x + width) so that x + width/2 stays    *)
(* an integer for every integer box, and distances are compared by their   *)
(* squares, which is exact.  The camera worker's timers count half        *)
(* seconds (face_lost_delay = 3, interpolation_duration = 4) and its       *)
(* offsets are degrees and millimetres kept to multiples of 5.             *)
(*                                                                         *)
(* Left out: metadata.logs and the state timestamp (no modelled operation  *)
(* reads them), the worker's frame and detection counters, the latest      *)
(* frame it stores, and the sound request of the web interface.            *)
(***************************************************************************)
EXTENDS Integers, Sequences, FiniteSets, TLC

VARIABLES
    now,                \* time.time() as read by update, in seconds
    tracks,             \* FaceTracker.tracks: persistent_id -> TrackedFace
    next_id,            \* FaceTracker.next_id
    faces,              \* argument of the latest update call
    matched_tracks,     \* update's local set after the call
    matched_detections, \* update's local set after the call (1-based indices)
    stale_ids,          \* update's local list of expired ids, as a set
    returned,           \* value returned by the latest update call
    primary,            \* primary_id: result of select_primary_face on the latest returned list
    op,                 \* name of the latest tracker operation
    ever_assigned,      \* history: ids handed out since construction
    assigned,           \* history: ids handed out since the latest reset
    kin_call,           \* a function called on its own: its name and arguments
    kin_result,         \* what that call returned (None before it returns)
    head,               \* state.actuator_commands.head: [yaw, pitch, roll] in degrees
    exec_in,            \* the head command execution_node was given (None before a call)
    violations,         \* execution_node's local list of violations
    pc_main,            \* run(): "loop", "after_loop" (past the while's else clause),
                        \* "stopped" (finally done after the loop) or "crashed"
                        \* (finally done after graph.invoke raised)
    stop_event,         \* the app's stop_event
    brain_enabled,      \* run()'s setting, toggled by POST /brain
    face_tracking_enabled, \* run()'s setting, toggled by POST /face_tracking
    brain_cycle_counter,
    head_target,        \* the head pose last passed to set_target (None before the first)
    antennas_target,    \* the antennas last passed to set_target (None before the first)
    worker_stop,        \* CameraWorker._stop_event
    is_head_tracking_enabled,
    previous_tracking_state,
    face_tracking_offsets, \* [x, y, z, roll, pitch, yaw]: millimetres and degrees
    time_since_face_lost,  \* current_time - last_face_detected_time in half seconds,
                           \* None while last_face_detected_time is None
    elapsed_interpolation, \* current_time - interpolation_start_time in half seconds,
                           \* None while interpolation_start_time is None
    interpolation_start_pose,
    \* History, written by the Watched actions only:
    worker_saw,         \* what the worker's latest pass found ("" before the first)
    returns_started,    \* interpolations started since the latest detection
    tick_calls,         \* the camera and worker calls of the control loop's latest pass
    \* The worker's pass step by step, and a thread calling the worker's getters:
    pc_worker,          \* where _working_loop stands
    w_seen,             \* what the pass under way found on its frame (None between passes)
    frame_lock,         \* CameraWorker.frame_lock: "" when free, else the holder
    face_tracking_lock, \* CameraWorker.face_tracking_lock: "" when free, else the holder
    pc_reader,          \* where the calling thread stands in a getter
    read_offsets,       \* what get_face_tracking_offsets returned last (None before)
    last_published,     \* history: the tuple the worker built for its latest assignment
    sections_waited,    \* history: worker critical sections the caller's wait has met
    \* start() and stop() followed on their own:
    worker_threads,     \* where each _working_loop thread started so far stands,
                        \* in the order of the start() calls; self._thread is the last
    pc_caller,          \* the thread calling start() and stop(): "constructed",
                        \* "started", "joining" (inside stop) or "stopped"
    updates_after_stop  \* history: assignments to face_tracking_offsets made since
                        \* the latest stop() returned

trackerVars == <<now, tracks, next_id, faces, matched_tracks, matched_detections,
                 stale_ids, returned, primary, op, ever_assigned, assigned>>

kinVars == <<kin_call, kin_result>>

brainVars == <<head, exec_in, violations>>

controlVars == <<pc_main, stop_event, brain_enabled, face_tracking_enabled,
                 brain_cycle_counter, head_target, antennas_target>>

workerVars == <<worker_stop, is_head_tracking_enabled, previous_tracking_state,
                face_tracking_offsets, time_since_face_lost,
                elapsed_interpolation, interpolation_start_pose>>

\* What the threads leave behind for the properties to look at
lockVars == <<pc_worker, w_seen, frame_lock, face_tracking_lock, pc_reader,
              read_offsets, last_published, sections_waited>>

lifeVars == <<worker_threads, pc_caller, updates_after_stop>>

threadVars == <<worker_saw, returns_started, tick_calls, lockVars, lifeVars>>

vars == <<trackerVars, kinVars, brainVars, controlVars, workerVars, threadVars>>

\* Optional[int]: None is the empty tuple and an id i is <<i>>
None == <<>>
Some(i) == <<i>>

----------------------------------------------------------------------------
(* Bounds of the model *)

MaxTime == 3          \* the clock stops advancing here
MaxFaces == 2         \* detections per update call
MaxId == 2            \* update is not called once next_id could pass this
MaxFramesTracked == 2 \* update is not called once a track has this many frames
MaxReturns == 2       \* interpolations counted since the latest detection
MaxSections == 3      \* worker critical sections counted during one wait
MatchMaxId == 4       \* as MaxId, where update is followed with several tracks
MatchMaxFramesTracked == 3   \* as MaxFramesTracked, there
MaxLogCalls == 103    \* add_log calls followed one after the other
MaxStarts == 2        \* start() calls on one CameraWorker
MaxUpdatesCounted == 3   \* assignments counted after a stop() has returned

(* Program constants *)

MaxDistance == 100    \* FaceTracker.max_distance (pixels)
TrackTimeout == 2     \* FaceTracker.track_timeout (seconds)
ConfStep == 5         \* +0.05 per match, in hundredths
ConfOne == 100        \* 1.0 in hundredths
FrameWidth == 640
FrameHeight == 480

----------------------------------------------------------------------------
(* Detections supplied by the detector: Face(x, y, width, height, confidence) *)

MkFace(x, y, w, h, c) == [x |-> x, y |-> y, width |-> w, height |-> h, confidence |-> c]

FaceChoices ==
    { MkFace(100, 100, 50, 50, 80),     \* centroid (125,125)
      MkFace(160, 180, 50, 50, 98),     \* centroid (185,205): exactly 100 px from the first
      MkFace(4, 105, 40, 40, 50) }      \* centroid (24,125): 101 px from the first

FaceLists ==
    UNION { [1..n -> FaceChoices] : n \in 0..MaxFaces }

----------------------------------------------------------------------------
(* FaceTracker.update *)

\* cx = face.x + face.width / 2, cy = face.y + face.height / 2, both doubled
Centroid(face) == <<2 * face.x + face.width, 2 * face.y + face.height>>

\* square of np.linalg.norm(a - b), on doubled coordinates (4 * distance^2)
Dist2(a, b) == (a[1] - b[1]) * (a[1] - b[1]) + (a[2] - b[2]) * (a[2] - b[2])

\* Mutant: the threshold test written with >= (a distance equal to the threshold no longer binds)
ExceedsMaxDistanceStrict(d2) == d2 >= 4 * MaxDistance * MaxDistance

\* min_dist > self.max_distance, on the doubled squares
ExceedsMaxDistance(d2) == d2 > 4 * MaxDistance * MaxDistance

\* Mutant: the tracks are visited in dict order and each takes the nearest
\* detection still free, when that one is within the threshold
RECURSIVE GreedyMatchRowFirst(_, _, _, _, _)
GreedyMatchRowFirst(trks, cents, freeT, freeD, acc) ==
    IF freeT = {} \/ freeD = {}
    THEN acc
    ELSE LET t == CHOOSE x \in freeT : \A y \in freeT : x <= y
             d(i) == Dist2(trks[t].centroid, cents[i])
             best == CHOOSE i \in freeD :
                        \A j \in freeD \ {i} : d(i) < d(j) \/ (d(i) = d(j) /\ i < j)
         IN  IF ExceedsMaxDistance(d(best))
             THEN GreedyMatchRowFirst(trks, cents, freeT \ {t}, freeD, acc)
             ELSE GreedyMatchRowFirst(trks, cents, freeT \ {t}, freeD \ {best},
                                      Append(acc, <<t, best>>))

\* Mutant: only the row of a bound pair is set to inf, its column stays
RECURSIVE GreedyMatchKeepingColumn(_, _, _, _, _)
GreedyMatchKeepingColumn(trks, cents, freeT, freeD, acc) ==
    IF freeT = {} \/ freeD = {}
    THEN acc
    ELSE LET pairs == freeT \X freeD
             d(p) == Dist2(trks[p[1]].centroid, cents[p[2]])
             Before(p, q) == \/ d(p) < d(q)
                             \/ /\ d(p) = d(q)
                                /\ \/ p[1] < q[1]
                                   \/ p[1] = q[1] /\ p[2] < q[2]
             best == CHOOSE p \in pairs : \A q \in pairs \ {p} : Before(p, q)
         IN  IF ExceedsMaxDistance(d(best))
             THEN acc
             ELSE GreedyMatchKeepingColumn(trks, cents, freeT \ {best[1]}, freeD,
                                           Append(acc, best))

\* The greedy loop.  freeT / freeD are the rows / columns not yet set to inf.
\* distances.argmin() returns the first minimum in row-major order, i.e. the
\* lowest track index (ids are inserted in increasing order) and then the
\* lowest detection index.  Returns the bound <<track_id, det_idx>> pairs in
\* binding order.
RECURSIVE GreedyMatch(_, _, _, _, _)
GreedyMatch(trks, cents, freeT, freeD, acc) ==
    IF freeT = {} \/ freeD = {}
    THEN acc
    ELSE LET pairs == freeT \X freeD
             d(p) == Dist2(trks[p[1]].centroid, cents[p[2]])
             Before(p, q) == \/ d(p) < d(q)
                             \/ /\ d(p) = d(q)
                                /\ \/ p[1] < q[1]
                                   \/ p[1] = q[1] /\ p[2] < q[2]
             best == CHOOSE p \in pairs : \A q \in pairs \ {p} : Before(p, q)
         IN  IF ExceedsMaxDistance(d(best))
             THEN acc
             ELSE GreedyMatch(trks, cents, freeT \ {best[1]}, freeD \ {best[2]},
                              Append(acc, best))

\* Mutant: the +0.05 without the cap at 1.0
BumpConfidenceUncapped(c) == c + ConfStep

\* min(1.0, tracking_confidence + 0.05)
BumpConfidence(c) == IF c + ConfStep > ConfOne THEN ConfOne ELSE c + ConfStep

\* Mutant: a matched track keeps the last_seen it had
MatchedTrackNotRefreshed(t, face, t_now) ==
    [ persistent_id       |-> t.persistent_id,
      face                |-> face,
      centroid            |-> <<2 * face.x + face.width, 2 * face.y + face.height>>,
      last_seen           |-> t.last_seen,
      tracking_confidence |-> IF t.tracking_confidence + ConfStep > ConfOne
                              THEN ConfOne ELSE t.tracking_confidence + ConfStep,
      frames_tracked      |-> t.frames_tracked + 1 ]

\* The in-place update of a matched track (lines 129-136)
MatchedTrack(t, face, t_now) ==
    [ persistent_id       |-> t.persistent_id,
      face                |-> face,
      centroid            |-> Centroid(face),
      last_seen           |-> t_now,
      tracking_confidence |-> BumpConfidence(t.tracking_confidence),
      frames_tracked      |-> t.frames_tracked + 1 ]

\* Mutant: a new track left at the dataclass default tracking_confidence = 1.0
NewTrackDefaultConfidence(id, face, t_now) ==
    [ persistent_id       |-> id,
      face                |-> face,
      centroid            |-> <<2 * face.x + face.width, 2 * face.y + face.height>>,
      last_seen           |-> t_now,
      tracking_confidence |-> ConfOne,
      frames_tracked      |-> 1 ]

\* TrackedFace(...) for an unmatched detection (lines 148-155)
NewTrack(id, face, t_now) ==
    [ persistent_id       |-> id,
      face                |-> face,
      centroid            |-> Centroid(face),
      last_seen           |-> t_now,
      tracking_confidence |-> face.confidence,
      frames_tracked      |-> 1 ]

\* Mutant: expiry at the timeout itself (>= instead of >)
IsStaleAtTimeout(t, t_now) == t_now - t.last_seen >= TrackTimeout

\* Mutant: every track not seen in this very call is dropped
IsStaleUnlessSeenNow(t, t_now) == t_now - t.last_seen > 0

\* current_time - track.last_seen > self.track_timeout
IsStale(t, t_now) == t_now - t.last_seen > TrackTimeout

\* list(self.tracks.values()): dict order is insertion order, which is
\* increasing id because ids are handed out in increasing order
RECURSIVE TrackList(_)
TrackList(trks) ==
    IF DOMAIN trks = {}
    THEN <<>>
    ELSE LET hi == CHOOSE i \in DOMAIN trks : \A j \in DOMAIN trks : j <= i
         IN  Append(TrackList([i \in DOMAIN trks \ {hi} |-> trks[i]]), trks[hi])

\* Mutant: the counter is not advanced
AdvanceNextIdStuck(nid) == nid

\* self.next_id += 1
AdvanceNextId(nid) == nid + 1

\* The creation loop (lines 146-159): detections are visited in list order and
\* every index not in matched_detections takes the current next_id.
\* st = [tracks, next_id, created].
RECURSIVE CreateTracks(_, _, _, _, _)
CreateTracks(st, fs, mdets, i, t_now) ==
    IF i > Len(fs)
    THEN st
    ELSE IF i \in mdets
         THEN CreateTracks(st, fs, mdets, i + 1, t_now)
         ELSE LET id == st.next_id
                  \* self.tracks[self.next_id] = new_track
                  put == [tid \in DOMAIN st.tracks \cup {id} |->
                             IF tid = id THEN NewTrack(id, fs[i], t_now)
                                         ELSE st.tracks[tid]]
              IN  CreateTracks([ tracks  |-> put,
                                 next_id |-> AdvanceNextId(id),
                                 created |-> st.created \cup {id} ],
                               fs, mdets, i + 1, t_now)

\* The in-place updates made by the matching loop, given its bindings
ApplyBindings(trks, fs, binds, t_now) ==
    [tid \in DOMAIN trks |->
        IF \E k \in DOMAIN binds : binds[k][1] = tid
        THEN LET k == CHOOSE k \in DOMAIN binds : binds[k][1] = tid
             IN  MatchedTrack(trks[tid], fs[binds[k][2]], t_now)
        ELSE trks[tid]]

\* Expiry (lines 162-168)
StaleIds(trks, t_now) == { tid \in DOMAIN trks : IsStale(trks[tid], t_now) }

\* The rest of update once the bindings are known (lines 145-171)
FinishUpdate(trks, nid, fs, t_now, binds) ==
    LET mdets == { binds[k][2] : k \in DOMAIN binds }
        mtrks == { binds[k][1] : k \in DOMAIN binds }
    IN  \* operator arguments are evaluated once
        LET Rest(st) ==
                LET Expire(stale) ==
                        LET final == [tid \in DOMAIN st.tracks \ stale |-> st.tracks[tid]]
                        IN  [ tracks             |-> final,
                              next_id            |-> st.next_id,
                              binds              |-> binds,
                              matched_tracks     |-> mtrks \cup st.created,
                              matched_detections |-> mdets,
                              created            |-> st.created,
                              stale_ids          |-> stale,
                              returned           |-> TrackList(final) ]
                IN  Expire(StaleIds(st.tracks, t_now))
        IN  Rest(CreateTracks([ tracks  |-> ApplyBindings(trks, fs, binds, t_now),
                                next_id |-> nid,
                                created |-> {} ],
                              fs, mdets, 1, t_now))

\* The whole of update(faces) as a function of the tracker state (lines 89-171)
UpdateResult(trks, nid, fs, t_now) ==
    FinishUpdate(trks, nid, fs, t_now,
                 IF DOMAIN trks # {} /\ Len(fs) > 0
                 THEN GreedyMatch(trks, [i \in 1..Len(fs) |-> Centroid(fs[i])],
                                  DOMAIN trks, 1..Len(fs), <<>>)
                 ELSE <<>>)

----------------------------------------------------------------------------
(* FaceTracker.select_primary_face.  Scores are float64 in the code; here   *)
(* they are fixed-point: each factor in thousandths, the total in           *)
(* ten-thousandths, square roots rounded down.                              *)

\* floor(sqrt(n)) by bisection; lo*lo <= n < hi*hi
RECURSIVE ISqrtBetween(_, _, _)
ISqrtBetween(n, lo, hi) ==
    IF hi - lo <= 1
    THEN lo
    ELSE LET mid == (lo + hi) \div 2
         IN  IF mid * mid <= n THEN ISqrtBetween(n, mid, hi)
                               ELSE ISqrtBetween(n, lo, mid)

ISqrt(n) == ISqrtBetween(n, 0, 46340)

\* 1.0 - distance_to_center / max_distance, in thousandths.  The doubled frame
\* centre is <<frame_width, frame_height>> and its doubled norm is 2*max_distance.
CentralityScore(t, fw, fh) ==
    1000 - (1000 * ISqrt(Dist2(t.centroid, <<fw, fh>>))) \div ISqrt(fw * fw + fh * fh)

\* np.sqrt(face_area / max_area), in thousandths
SizeScore(t, fw, fh) ==
    (1000 * ISqrt(100 * t.face.width * t.face.height)) \div ISqrt(100 * fw * fh)

\* 0.4 * centrality + 0.4 * size + 0.2 * confidence, in ten-thousandths
TotalScore(t, fw, fh) ==
    4 * CentralityScore(t, fw, fh) + 4 * SizeScore(t, fw, fh)
      + 2 * (10 * t.tracking_confidence)

\* best_score = -1.0
InitialBestScore == 0 - 10000

\* Mutant: the comparison inverted
BeatsBestInverted(total, best) == total < best

\* Mutant: a later track with an equal score replaces the best so far
BeatsBestOrEqual(total, best) == total >= best

\* if total_score > best_score
BeatsBest(total, best) == total > best

\* The selection loop (lines 245-278) from position i on
RECURSIVE SelectFrom(_, _, _, _, _, _)
SelectFrom(trackList, fw, fh, i, best_score, best_id) ==
    IF i > Len(trackList)
    THEN best_id
    ELSE LET total == TotalScore(trackList[i], fw, fh)
         IN  IF BeatsBest(total, best_score)
             THEN SelectFrom(trackList, fw, fh, i + 1, total, Some(trackList[i].persistent_id))
             ELSE SelectFrom(trackList, fw, fh, i + 1, best_score, best_id)

select_primary_face(trackList, fw, fh) ==
    IF Len(trackList) = 0
    THEN None
    ELSE SelectFrom(trackList, fw, fh, 1, InitialBestScore, None)

\* Track lists select_primary_face is exercised on: faces at the frame centre
\* and near a corner, of two sizes and two confidences, up to three per list,
\* the same face allowed more than once.  The track at position i has id 10 + i.
SelectFaces ==
    { MkFace(270, 190, 100, 100, 90),    \* central
      MkFace(0,   0,   100, 100, 90),    \* same size and confidence, near the corner
      MkFace(220, 140, 200, 200, 90),    \* central, larger
      MkFace(0,   0,   100, 100, 100) }  \* near the corner, full confidence

SelectLists ==
    UNION { { [i \in 1..n |-> NewTrack(10 + i, fs[i], 0)] : fs \in [1..n -> SelectFaces] }
            : n \in 0..3 }

\* A caller picks the track list for select_primary_face
CallSelectPrimaryFace ==
    /\ kin_call = None
    /\ \E lst \in SelectLists :
          kin_call' = [ fn |-> "select_primary_face", tracks |-> lst ]
    /\ UNCHANGED kin_result

\* select_primary_face returns
SelectPrimaryFace ==
    /\ kin_call # None
    /\ kin_call.fn = "select_primary_face"
    /\ kin_result = None
    /\ kin_result' = [ primary_id |-> select_primary_face(kin_call.tracks, FrameWidth, FrameHeight) ]
    /\ UNCHANGED kin_call

----------------------------------------------------------------------------
(* brain/utils/kinematics.py: safety limits *)

HEAD_YAW_LIMIT == 180
HEAD_PITCH_LIMIT == 40
HEAD_ROLL_LIMIT == 40
BODY_HEAD_YAW_DIFF_LIMIT == 65

Abs(x) == IF x < 0 THEN 0 - x ELSE x

\* The if / elif pair that clamps one angle to [-limit, limit] (lines 123-157)
ClampSymmetric(v, limit) ==
    IF v > limit THEN limit
    ELSE IF v < 0 - limit THEN 0 - limit
    ELSE v

\* Mutant: the body-relative check is skipped
ClampBodyRelativeSkipped(clamped_yaw, body_yaw) == clamped_yaw

\* Mutant: the body-relative check pulls the yaw back by the limit instead of
\* setting it on the limit
ClampBodyRelativeStepwise(clamped_yaw, body_yaw) ==
    IF Abs(clamped_yaw - body_yaw) > BODY_HEAD_YAW_DIFF_LIMIT
    THEN IF clamped_yaw > body_yaw
         THEN clamped_yaw - BODY_HEAD_YAW_DIFF_LIMIT
         ELSE clamped_yaw + BODY_HEAD_YAW_DIFF_LIMIT
    ELSE clamped_yaw

\* The body-relative yaw check (lines 159-167), applied to the yaw already
\* clamped to the absolute limit
ClampBodyRelative(clamped_yaw, body_yaw) ==
    IF Abs(clamped_yaw - body_yaw) > BODY_HEAD_YAW_DIFF_LIMIT
    THEN IF clamped_yaw > body_yaw
         THEN body_yaw + BODY_HEAD_YAW_DIFF_LIMIT
         ELSE body_yaw - BODY_HEAD_YAW_DIFF_LIMIT
    ELSE clamped_yaw

apply_safety_limits(yaw, pitch, roll, body_yaw) ==
    [ yaw   |-> ClampBodyRelative(ClampSymmetric(yaw, HEAD_YAW_LIMIT), body_yaw),
      pitch |-> ClampSymmetric(pitch, HEAD_PITCH_LIMIT),
      roll  |-> ClampSymmetric(roll, HEAD_ROLL_LIMIT) ]

\* Arguments the function is exercised on: both sides of every limit
YawInputs == {-200, -181, -180, -66, -65, 0, 65, 66, 180, 181, 200}
PitchInputs == {-50, -41, -40, 0, 40, 41, 50}
RollInputs == {-50, -40, 0, 40, 50}
BodyYawInputs == {-246, -245, -180, -30, 0, 30, 180, 245, 246}

\* A caller picks the arguments of apply_safety_limits
CallApplySafetyLimits ==
    /\ kin_call = None
    /\ \E y \in YawInputs, p \in PitchInputs, r \in RollInputs, b \in BodyYawInputs :
          kin_call' = [ fn |-> "apply_safety_limits",
                        yaw |-> y, pitch |-> p, roll |-> r, body_yaw |-> b ]
    /\ UNCHANGED kin_result

\* apply_safety_limits returns
ApplySafetyLimits ==
    /\ kin_call # None
    /\ kin_call.fn = "apply_safety_limits"
    /\ kin_result = None
    /\ kin_result' = apply_safety_limits(kin_call.yaw, kin_call.pitch, kin_call.roll,
                                         kin_call.body_yaw)
    /\ UNCHANGED kin_call

\* The caller passes the angles apply_safety_limits returned to it once more,
\* with the same body_yaw; first_args keeps the angles of the first call and
\* reapplied_to the result of the first call
ReapplySafetyLimits ==
    /\ kin_call # None
    /\ kin_call.fn = "apply_safety_limits"
    /\ kin_result # None
    /\ "reapplied_to" \notin DOMAIN kin_call
    /\ kin_call' = [ fn |-> "apply_safety_limits",
                     yaw |-> kin_result.yaw, pitch |-> kin_result.pitch,
                     roll |-> kin_result.roll, body_yaw |-> kin_call.body_yaw,
                     first_args |-> [ yaw |-> kin_call.yaw, pitch |-> kin_call.pitch,
                                      roll |-> kin_call.roll ],
                     reapplied_to |-> kin_result ]
    /\ kin_result' = apply_safety_limits(kin_result.yaw, kin_result.pitch, kin_result.roll,
                                         kin_call.body_yaw)

----------------------------------------------------------------------------
(* brain/utils/kinematics.py: look-at angles and smoothing.  Angles are whole
   degrees, lengths centimetres, progress thousandths. *)

\* round(1000 * tan(d degrees)) for d = 1..89
TanMilli == <<
    17, 35, 52, 70, 87, 105, 123, 141, 158, 176,
    194, 213, 231, 249, 268, 287, 306, 325, 344, 364,
    384, 404, 424, 445, 466, 488, 510, 532, 554, 577,
    601, 625, 649, 675, 700, 727, 754, 781, 810, 839,
    869, 900, 933, 966, 1000, 1036, 1072, 1111, 1150, 1192,
    1235, 1280, 1327, 1376, 1428, 1483, 1540, 1600, 1664, 1732,
    1804, 1881, 1963, 2050, 2145, 2246, 2356, 2475, 2605, 2747,
    2904, 3078, 3271, 3487, 3732, 4011, 4331, 4705, 5145, 5671,
    6314, 7115, 8144, 9514, 11430, 14301, 19081, 28636, 57290 >>

RECURSIVE AtanDegFrom(_, _, _)
\* The largest d >= d0 below 90 whose tangent is at most num / den
AtanDegFrom(num, den, d0) ==
    IF d0 < 89 /\ TanMilli[d0 + 1] * den <= 1000 * num
    THEN AtanDegFrom(num, den, d0 + 1)
    ELSE d0

\* math.degrees(math.atan2(y, x)), truncated to whole degrees
Atan2Deg(y, x) ==
    IF x > 0 THEN (IF y >= 0 THEN AtanDegFrom(y, x, 0) ELSE 0 - AtanDegFrom(0 - y, x, 0))
    ELSE IF x = 0 THEN (IF y > 0 THEN 90 ELSE IF y < 0 THEN -90 ELSE 0)
    ELSE IF y >= 0 THEN 180 - AtanDegFrom(y, 0 - x, 0)
    ELSE AtanDegFrom(0 - y, 0 - x, 0) - 180

\* Mutant: the pitch of a target off the vertical axis is its elevation, sign
\* not inverted
LookAtAnglesPitchUp(target_x, target_y, target_z) ==
    LET horizontal_distance == ISqrt(target_x * target_x + target_y * target_y)
    IN  [ yaw   |-> Atan2Deg(target_y, target_x),
          pitch |-> IF horizontal_distance > 0
                    THEN Atan2Deg(target_z, horizontal_distance)
                    ELSE IF target_z > 0 THEN -90 ELSE 90,
          roll  |-> 0 ]

\* Mutant: a target on the vertical axis gets +90 above and -90 below
LookAtAnglesOverheadUp(target_x, target_y, target_z) ==
    LET horizontal_distance == ISqrt(target_x * target_x + target_y * target_y)
    IN  [ yaw   |-> Atan2Deg(target_y, target_x),
          pitch |-> IF horizontal_distance > 0
                    THEN 0 - Atan2Deg(target_z, horizontal_distance)
                    ELSE IF target_z > 0 THEN 90 ELSE -90,
          roll  |-> 0 ]

\* Lengths are whole centimetres, so horizontal_distance > 0.001 (a millimetre)
\* is horizontal_distance > 0; current_yaw is a parameter the function never
\* reads
calculate_look_at_angles(target_x, target_y, target_z) ==
    LET horizontal_distance == ISqrt(target_x * target_x + target_y * target_y)
    IN  [ yaw   |-> Atan2Deg(target_y, target_x),
          pitch |-> IF horizontal_distance > 0
                    THEN 0 - Atan2Deg(target_z, horizontal_distance)
                    ELSE IF target_z > 0 THEN -90 ELSE 90,
          roll  |-> 0 ]

\* n / d rounded to the nearest integer, halves away from zero
RoundDiv(n, d) == IF n >= 0 THEN (2 * n + d) \div (2 * d) ELSE 0 - ((2 * (0 - n) + d) \div (2 * d))

ease_in_out_cubic(t) ==
    IF t < 500
    THEN (4 * t * t * t) \div 1000000
    ELSE 1000 - ((2000 - 2 * t) * (2000 - 2 * t) * (2000 - 2 * t)) \div 2000000

RECURSIVE NormalizeAngle(_)
\* The two while loops that bring an angle into [-180, 180]
NormalizeAngle(a) ==
    IF a > 180 THEN NormalizeAngle(a - 360)
    ELSE IF a < -180 THEN NormalizeAngle(a + 360)
    ELSE a

\* Mutant: progress is clipped from below only
ClipProgressFromBelow(progress) == IF progress < 0 THEN 0 ELSE progress

\* np.clip(progress, 0.0, 1.0)
ClipProgress(progress) == IF progress < 0 THEN 0 ELSE IF progress > 1000 THEN 1000 ELSE progress

\* The easing chosen by name; an unknown name falls back to linear
EasedProgress(progress, easing) ==
    IF easing = "cubic" THEN ease_in_out_cubic(ClipProgress(progress)) ELSE ClipProgress(progress)

\* Mutant: the difference is used as it is, without bringing it into [-180, 180]
AngleDiffUnwrapped(current_angle, target_angle) == target_angle - current_angle

\* angle_diff, brought into [-180, 180] (lines 238-244)
AngleDiff(current_angle, target_angle) == NormalizeAngle(target_angle - current_angle)

smooth_transition(current_angle, target_angle, progress, easing) ==
    LET eased_progress == EasedProgress(progress, easing)
        angle_diff == AngleDiff(current_angle, target_angle)
    IN  NormalizeAngle(current_angle + RoundDiv(angle_diff * eased_progress, 1000))

\* Arguments smooth_transition is exercised on: angles on both sides of the
\* +-180 seam, progress below, inside and above [0, 1], every easing name
AngleInputs == {-180, -170, -90, 0, 90, 170, 180}
ProgressInputs == {-100, 0, 250, 500, 800, 1000, 1200}
EasingInputs == {"cubic", "linear", "bounce"}

\* A caller picks the arguments of smooth_transition
CallSmoothTransition ==
    /\ kin_call = None
    /\ \E c \in AngleInputs, t \in AngleInputs, p \in ProgressInputs, e \in EasingInputs :
          kin_call' = [ fn |-> "smooth_transition", current_angle |-> c,
                        target_angle |-> t, progress |-> p, easing |-> e ]
    /\ UNCHANGED kin_result

\* smooth_transition returns
SmoothTransition ==
    /\ kin_call # None
    /\ kin_call.fn = "smooth_transition"
    /\ kin_result = None
    /\ kin_result' = [ angle |-> smooth_transition(kin_call.current_angle, kin_call.target_angle,
                                                   kin_call.progress, kin_call.easing) ]
    /\ UNCHANGED kin_call

\* Mutant: the smoothing runs towards the raw angles and the limits are applied
\* only when progress >= 1
LookAtWithSafetyTowardsRaw(target_x, target_y, target_z, current, body_yaw, progress, easing) ==
    LET raw == calculate_look_at_angles(target_x, target_y, target_z)
        target == apply_safety_limits(raw.yaw, raw.pitch, raw.roll, body_yaw)
    IN  IF progress < 1000
        THEN [ yaw   |-> smooth_transition(current.yaw, raw.yaw, progress, easing),
               pitch |-> smooth_transition(current.pitch, raw.pitch, progress, easing),
               roll  |-> smooth_transition(current.roll, raw.roll, progress, easing) ]
        ELSE target

calculate_look_at_with_safety(target_x, target_y, target_z, current, body_yaw, progress, easing) ==
    LET raw == calculate_look_at_angles(target_x, target_y, target_z)
        target == apply_safety_limits(raw.yaw, raw.pitch, raw.roll, body_yaw)
    IN  IF progress < 1000
        THEN [ yaw   |-> smooth_transition(current.yaw, target.yaw, progress, easing),
               pitch |-> smooth_transition(current.pitch, target.pitch, progress, easing),
               roll  |-> smooth_transition(current.roll, target.roll, progress, easing) ]
        ELSE target

\* Target coordinates in centimetres: on the vertical axis, level, above and
\* below
HorizontalInputs == {-100, 0, 100}
HeightInputs == {-100, -50, 0, 50, 100}
CurrentYawInputs == {-30, 0, 30}
LookAtBodyYawInputs == {0, 40}
LookAtProgressInputs == {0, 500, 1000}
LookAtEasingInputs == {"cubic", "linear"}

\* A caller picks the arguments of calculate_look_at_angles
CallCalculateLookAtAngles ==
    /\ kin_call = None
    /\ \E x \in HorizontalInputs, y \in HorizontalInputs, z \in HeightInputs,
          cy \in CurrentYawInputs :
          kin_call' = [ fn |-> "calculate_look_at_angles", target_x |-> x, target_y |-> y,
                        target_z |-> z, current_yaw |-> cy ]
    /\ UNCHANGED kin_result

\* calculate_look_at_angles returns
CalculateLookAtAngles ==
    /\ kin_call # None
    /\ kin_call.fn = "calculate_look_at_angles"
    /\ kin_result = None
    /\ kin_result' = calculate_look_at_angles(kin_call.target_x, kin_call.target_y,
                                               kin_call.target_z)
    /\ UNCHANGED kin_call

\* A caller picks the arguments of calculate_look_at_with_safety; the current
\* head pose has the pitch and roll of the neutral pose
CallCalculateLookAtWithSafety ==
    /\ kin_call = None
    /\ \E x \in HorizontalInputs, y \in HorizontalInputs, z \in HeightInputs,
          cy \in CurrentYawInputs, b \in LookAtBodyYawInputs,
          p \in LookAtProgressInputs, e \in LookAtEasingInputs :
          kin_call' = [ fn |-> "calculate_look_at_with_safety", target_x |-> x,
                        target_y |-> y, target_z |-> z, current_yaw |-> cy,
                        current_pitch |-> 0, current_roll |-> 0,
                        body_yaw |-> b, progress |-> p, easing |-> e ]
    /\ UNCHANGED kin_result

\* calculate_look_at_with_safety returns
CalculateLookAtWithSafety ==
    /\ kin_call # None
    /\ kin_call.fn = "calculate_look_at_with_safety"
    /\ kin_result = None
    /\ kin_result' = calculate_look_at_with_safety(
                          kin_call.target_x, kin_call.target_y, kin_call.target_z,
                          [yaw |-> kin_call.current_yaw, pitch |-> kin_call.current_pitch,
                           roll |-> kin_call.current_roll],
                          kin_call.body_yaw, kin_call.progress, kin_call.easing)
    /\ UNCHANGED kin_call

----------------------------------------------------------------------------
(* brain/graph.py: execution_node, the safety filter *)

\* Mutant: the violation tests written with >= and <=, so that a value on the
\* bound is reported too
ClampAxisInclusive(axis, v, limit) ==
    IF v <= 0 - limit
    THEN [ value |-> 0 - limit, violations |-> << [axis |-> axis, value |-> v, bound |-> 0 - limit] >> ]
    ELSE IF v >= limit
    THEN [ value |-> limit, violations |-> << [axis |-> axis, value |-> v, bound |-> limit] >> ]
    ELSE [ value |-> v, violations |-> <<>> ]

\* One if / elif block of execution_node (lines 168-173, 176-181, 184-189):
\* the clamped value and the violations it appends.  A violation is the
\* message "<axis> <value> < -<limit> (clamped)" or "... > <limit> (clamped)".
ClampAxis(axis, v, limit) ==
    IF v < 0 - limit
    THEN [ value |-> 0 - limit, violations |-> << [axis |-> axis, value |-> v, bound |-> 0 - limit] >> ]
    ELSE IF v > limit
    THEN [ value |-> limit, violations |-> << [axis |-> axis, value |-> v, bound |-> limit] >> ]
    ELSE [ value |-> v, violations |-> <<>> ]

\* Mutant: the yaw is also clamped to within BODY_HEAD_YAW_DIFF_LIMIT of a body
\* yaw of 0, with a violation
ExecutionNodeBodyRelative(cmd) ==
    LET y == ClampAxis("yaw", cmd.yaw, 65)
        p == ClampAxis("pitch", cmd.pitch, 40)
        r == ClampAxis("roll", cmd.roll, 40)
    IN  [ head       |-> [yaw |-> y.value, pitch |-> p.value, roll |-> r.value],
          violations |-> y.violations \o p.violations \o r.violations ]

\* execution_node's effect on the head command, with the violations list
\* (which the node joins into one "Safety violations: ..." log message)
execution_node(cmd) ==
    LET y == ClampAxis("yaw", cmd.yaw, 180)
        p == ClampAxis("pitch", cmd.pitch, 40)
        r == ClampAxis("roll", cmd.roll, 40)
    IN  [ head       |-> [yaw |-> y.value, pitch |-> p.value, roll |-> r.value],
          violations |-> y.violations \o p.violations \o r.violations ]

\* Head commands execution_node is exercised on.  HeadCommand does not validate
\* assignment, so a caller can hand over any value (tests/test_execution_node.py).
HeadYawInputs == {-200, -181, -180, 30, 180, 181, 200}
HeadPitchInputs == {-50, -41, -40, 20, 40, 41, 50}
HeadRollInputs == {-50, -40, 10, 40, 50}

\* A caller stores a head command in the state
SetHeadCommand ==
    /\ exec_in = None
    /\ \E y \in HeadYawInputs, p \in HeadPitchInputs, r \in HeadRollInputs :
          head' = [yaw |-> y, pitch |-> p, roll |-> r]
    /\ UNCHANGED <<exec_in, violations>>

\* execution_node(state)
ExecutionNode ==
    /\ exec_in = None
    /\ exec_in' = head
    /\ head' = execution_node(head).head
    /\ violations' = execution_node(head).violations

----------------------------------------------------------------------------
(* brain/graph.py: one invocation of the compiled graph *)

CognitionProgress == 800   \* progress=0.8

\* HeadCommand(...): pydantic rejects an angle outside the field's range
HeadCommandValid(cmd) ==
    /\ cmd.yaw >= -180 /\ cmd.yaw <= 180
    /\ cmd.pitch >= -40 /\ cmd.pitch <= 40
    /\ cmd.roll >= -40 /\ cmd.roll <= 40

\* What perception leaves in world_model.humans: no primary human (None), or
\* the primary human's position (x right, y up, z depth) in centimetres, as
\* estimate_3d_position gives it for a face inside the 60-degree field of view
PerceptionOutcomes ==
    { None,
      [x |-> 0,  y |-> -26, z |-> 100],
      [x |-> 25, y |-> 0,   z |-> 100] }

\* Mutant: without a primary human the head command goes back to neutral
CognitionNodeNeutralWithoutHuman(cmd, primary_human) ==
    IF primary_human # None
    THEN calculate_look_at_with_safety(primary_human.z, primary_human.x, primary_human.y,
                                       cmd, 0, CognitionProgress, "cubic")
    ELSE [yaw |-> 0, pitch |-> 0, roll |-> 0]

\* cognition_node: the head command it leaves in the state
cognition_node(cmd, primary_human) ==
    IF primary_human # None
    THEN calculate_look_at_with_safety(primary_human.z, primary_human.x, primary_human.y,
                                       cmd, 0, CognitionProgress, "cubic")
    ELSE cmd

\* graph.invoke(state): perception, cognition, skills (a placeholder that
\* leaves the commands alone), execution.  raised is TRUE when HeadCommand
\* rejects cognition's angles and the invocation ends in a ValidationError.
graph_invoke(cmd, primary_human) ==
    LET thought == cognition_node(cmd, primary_human)
        executed == execution_node(thought)
    IN  [ raised     |-> ~HeadCommandValid(thought),
          exec_in    |-> thought,
          head       |-> executed.head,
          violations |-> executed.violations ]

----------------------------------------------------------------------------
(* camera_worker.py: the worker thread *)

FaceLostDelay == 3            \* face_lost_delay = 1.5 s, in half seconds
InterpolationDuration == 4    \* interpolation_duration = 2.0 s, in half seconds
AlphaTenths == 7              \* alpha = 0.7

OffsetFields == {"x", "y", "z", "roll", "pitch", "yaw"}

NeutralOffsets == [x |-> 0, y |-> 0, z |-> 0, roll |-> 0, pitch |-> 0, yaw |-> 0]

\* Poses reachy_mini.look_at_image (the SDK) computes for a detected face; the
\* worker takes whatever it returns
LookAtImagePoses ==
    { [x |-> 0, y |-> 0, z |-> 0, roll |-> 0, pitch |-> 30, yaw |-> 0] }

\* What one iteration finds: no frame, a frame on which detect_faces raises, a
\* frame without a face, a face for which look_at_image raises, or a face
\* with the pose look_at_image returns
FrameOutcomes ==
    { [frame |-> "none"], [frame |-> "detector_error"], [frame |-> "no_face"],
      [frame |-> "look_at_error"] }
    \cup { [frame |-> "face", pose |-> t] : t \in LookAtImagePoses }

\* The offsets are floats in the code; here each is kept to the nearest
\* multiple of 5 (degrees or millimetres): n / d rounded to such a multiple
RoundToStep(n, d) == 5 * RoundDiv(n, 5 * d)

\* Exponential smoothing of the offsets towards the target pose
SmoothOffsets(target_pose, old_offsets) ==
    [f \in OffsetFields |->
        RoundToStep(AlphaTenths * target_pose[f] + (10 - AlphaTenths) * old_offsets[f], 10)]

\* linear_pose_interpolation(start, neutral, elapsed / duration), per
\* component (exact for a rotation about one axis)
InterpolateToNeutral(start_pose, elapsed) ==
    LET e == IF elapsed > InterpolationDuration THEN InterpolationDuration ELSE elapsed
    IN  [f \in OffsetFields |->
            RoundToStep(start_pose[f] * (InterpolationDuration - e), InterpolationDuration)]

\* Lines 184-233: the return to neutral, given the offsets and the timers as
\* the tracking part of the iteration left them
\* Mutant: the return starts as soon as the face is gone
FaceLostAtAll(since_lost) == since_lost[1] >= 0

\* Mutant: the face is never gone long enough for the return to start
FaceLostNeverLongEnough(since_lost) == FALSE

\* time_since_face_lost >= self.face_lost_delay
FaceLostLongEnough(since_lost) == since_lost[1] >= FaceLostDelay

\* Mutant: the timers are never cleared
InterpolationNeverComplete(el) == FALSE

\* t >= 1.0, with t = min(1.0, elapsed_interpolation / interpolation_duration)
InterpolationComplete(el) == el >= InterpolationDuration

\* Mutant: a start pose left over from an earlier interpolation is used again
StartPoseKept(offsets, elapsed, start_pose) ==
    IF start_pose = None THEN offsets ELSE start_pose

\* The start pose of the interpolation: captured from the offsets when
\* interpolation_start_time is None (lines 190-202), the stored one otherwise
StartPose(offsets, elapsed, start_pose) ==
    IF elapsed = None THEN offsets ELSE start_pose

ReturnToNeutral(offsets, since_lost, elapsed, start_pose) ==
    IF since_lost # None /\ FaceLostLongEnough(since_lost)
    THEN LET el == IF elapsed = None THEN 0 ELSE elapsed[1]
             sp == StartPose(offsets, elapsed, start_pose)
         IN  IF InterpolationComplete(el)
             THEN [ offsets |-> InterpolateToNeutral(sp, el),
                    since_lost |-> None, elapsed |-> None, start_pose |-> None ]
             ELSE [ offsets |-> InterpolateToNeutral(sp, el),
                    since_lost |-> since_lost, elapsed |-> <<el>>, start_pose |-> sp ]
    ELSE [ offsets |-> offsets, since_lost |-> since_lost,
           elapsed |-> elapsed, start_pose |-> start_pose ]

\* The body of _working_loop's while loop, once.  Without a frame the pass ends at
\* once; when detect_faces raises, the pass ends there with what it had
\* already assigned.
PassBody(seen) ==
    /\    IF seen.frame = "none"
          THEN UNCHANGED <<previous_tracking_state, face_tracking_offsets,
                           time_since_face_lost, elapsed_interpolation,
                           interpolation_start_pose>>
          ELSE LET just_disabled == previous_tracking_state /\ ~is_head_tracking_enabled
                   lost0  == IF just_disabled THEN <<0>> ELSE time_since_face_lost
                   el0    == IF just_disabled THEN None ELSE elapsed_interpolation
                   pose0  == IF just_disabled THEN None ELSE interpolation_start_pose
                   found  == is_head_tracking_enabled /\ seen.frame \in {"face", "look_at_error"}
                   lost1  == IF found THEN <<0>> ELSE lost0
                   el1    == IF found THEN None ELSE el0
                   offs1  == IF is_head_tracking_enabled /\ seen.frame = "face"
                             THEN SmoothOffsets(seen.pose, face_tracking_offsets)
                             ELSE face_tracking_offsets
               IN  /\ previous_tracking_state' = is_head_tracking_enabled
                   /\ IF is_head_tracking_enabled /\ seen.frame = "detector_error"
                      THEN /\ time_since_face_lost' = lost0
                           /\ elapsed_interpolation' = el0
                           /\ interpolation_start_pose' = pose0
                           /\ UNCHANGED face_tracking_offsets
                      ELSE \E r \in {ReturnToNeutral(offs1, lost1, el1, pose0)} :
                              /\ face_tracking_offsets' = r.offsets
                              /\ time_since_face_lost' = r.since_lost
                              /\ elapsed_interpolation' = r.elapsed
                              /\ interpolation_start_pose' = r.start_pose
    /\ UNCHANGED <<worker_stop, is_head_tracking_enabled>>

\* while not self._stop_event.is_set(): and the body
WorkerIterationOn(seen) ==
    /\ ~worker_stop
    /\ PassBody(seen)

\* The pass, whatever it finds
WorkerIteration ==
    \E seen \in FrameOutcomes : WorkerIterationOn(seen)

\* What a pass makes of its frame: with tracking off the detector is not run
\* and the frame is only stored
WhatPassSaw(seen) ==
    IF seen.frame = "none" \/ is_head_tracking_enabled THEN seen.frame ELSE "frame"

\* The pass, with what it found written down
WatchedWorkerIteration ==
    \E seen \in FrameOutcomes :
        /\ WorkerIterationOn(seen)
        /\ worker_saw' = WhatPassSaw(seen)
        /\ returns_started' =
              IF is_head_tracking_enabled /\ seen.frame \in {"face", "look_at_error"}
              THEN 0
              ELSE IF elapsed_interpolation = None /\ elapsed_interpolation' # None
                                                  /\ returns_started < MaxReturns
              THEN returns_started + 1
              ELSE returns_started

\* Half a second passes.  The code compares time_since_face_lost with
\* face_lost_delay only and caps elapsed / duration at 1, so both timers stop
\* counting at those values.
WorkerClockTick ==
    /\ time_since_face_lost' =
          IF time_since_face_lost = None THEN None
          ELSE IF time_since_face_lost[1] < FaceLostDelay
          THEN <<time_since_face_lost[1] + 1>>
          ELSE time_since_face_lost
    /\ elapsed_interpolation' =
          IF elapsed_interpolation = None THEN None
          ELSE IF elapsed_interpolation[1] < InterpolationDuration
          THEN <<elapsed_interpolation[1] + 1>>
          ELSE elapsed_interpolation
    /\ UNCHANGED <<worker_stop, is_head_tracking_enabled, previous_tracking_state,
                   face_tracking_offsets, interpolation_start_pose>>

----------------------------------------------------------------------------
(* camera_worker.py: start() and stop().  A loop thread is at its while test
   ("loop_test"), inside the body ("in_pass": get_frame, the detector and
   the assignments of the pass) or has left the loop ("exited"). *)

\* Mutant: the loop goes on whatever the stop event says
LoopTestIgnoringStop(stop_is_set) == "in_pass"

\* while not self._stop_event.is_set()
LoopTestNext(stop_is_set) == IF stop_is_set THEN "exited" ELSE "in_pass"

RunningLoops == { i \in DOMAIN worker_threads : worker_threads[i] # "exited" }

LoopsInPass == { i \in DOMAIN worker_threads : worker_threads[i] = "in_pass" }

\* start(), lines 87-92: the stop event is cleared and a new thread is
\* created and started, whether or not one is running
start ==
    /\ pc_caller \in {"constructed", "started", "stopped"}
    /\ Len(worker_threads) < MaxStarts
    /\ worker_stop' = FALSE
    /\ worker_threads' = Append(worker_threads, "loop_test")
    /\ pc_caller' = "started"
    /\ updates_after_stop' = 0
    /\ UNCHANGED <<is_head_tracking_enabled, previous_tracking_state,
                   face_tracking_offsets, time_since_face_lost,
                   elapsed_interpolation, interpolation_start_pose>>

\* stop(), lines 96-98: the stop event is set, and self._thread is joined
\* when there is one
StopCall ==
    /\ pc_caller \in {"constructed", "started", "stopped"}
    /\ worker_stop' = TRUE
    /\ pc_caller' = IF worker_threads = <<>> THEN "stopped" ELSE "joining"
    /\ updates_after_stop' = 0
    /\ UNCHANGED <<worker_threads, is_head_tracking_enabled, previous_tracking_state,
                   face_tracking_offsets, time_since_face_lost,
                   elapsed_interpolation, interpolation_start_pose>>

\* self._thread.join(timeout=2.0) returns: the thread has left its loop, or
\* 2.0 s have gone by with the thread inside a pass (get_frame and the
\* detector take the time they take; the sleeps of the loop are 0.1 s at most)
StopReturn ==
    /\ pc_caller = "joining"
    /\ worker_threads[Len(worker_threads)] \in {"exited", "in_pass"}
    /\ pc_caller' = "stopped"
    /\ UNCHANGED <<worker_threads, updates_after_stop, workerVars>>

\* A loop thread comes to its while test
ThreadLoopTest ==
    /\ \E i \in DOMAIN worker_threads :
          /\ worker_threads[i] = "loop_test"
          /\ worker_threads' = [worker_threads EXCEPT ![i] = LoopTestNext(worker_stop)]
    /\ UNCHANGED <<pc_caller, updates_after_stop, workerVars>>

\* A loop thread runs the body of its pass and sleeps.  (The tracking switch
\* stays on here, so that previous_tracking_state, a local of each thread,
\* is TRUE in all of them.)
ThreadPass ==
    /\ \E i \in DOMAIN worker_threads :
          /\ worker_threads[i] = "in_pass"
          /\ worker_threads' = [worker_threads EXCEPT ![i] = "loop_test"]
    /\ \E seen \in FrameOutcomes : PassBody(seen)
    /\ updates_after_stop' =
          IF /\ pc_caller = "stopped"
             /\ face_tracking_offsets' # face_tracking_offsets
             /\ updates_after_stop < MaxUpdatesCounted
          THEN updates_after_stop + 1
          ELSE updates_after_stop
    /\ UNCHANGED pc_caller

----------------------------------------------------------------------------
(* camera_worker.py: the pass step by step, with the two locks *)

\* Mutant: the assignment changes the translation and leaves the rotation of
\* the tuple that was there
StoreTranslationOnly(current, new_tuple) ==
    [f \in OffsetFields |-> IF f \in {"x", "y", "z"} THEN new_tuple[f] ELSE current[f]]

\* self.face_tracking_offsets = (...): the attribute is bound to the new
\* tuple, all six components at once
StoreOffsets(current, new_tuple) == new_tuple

\* Mutant: a lock is taken whether or not it is held
LockFreeOrHeld(holder) == TRUE

\* threading.Lock: the with statement is entered only when nobody holds the lock
LockFree(holder) == holder = ""

\* One more critical section for a caller that waits for this lock
CountSection(lock_name) ==
    IF pc_reader = lock_name /\ sections_waited < MaxSections
    THEN sections_waited + 1
    ELSE sections_waited

workerData == <<worker_stop, is_head_tracking_enabled, previous_tracking_state,
                face_tracking_offsets, time_since_face_lost, elapsed_interpolation,
                interpolation_start_pose>>

readerData == <<pc_reader, read_offsets>>

\* while not self._stop_event.is_set(): current_time = time.time()
WorkerLoopTest ==
    /\ pc_worker = "loop_test"
    /\ ~worker_stop
    /\ pc_worker' = "get_frame"
    /\ UNCHANGED <<workerData, readerData, w_seen, frame_lock, face_tracking_lock,
                   last_published, sections_waited>>

\* frame = self.reachy_mini.media.get_frame(), no lock held; without a frame
\* the pass sleeps and starts over
WorkerGetFrame ==
    /\ pc_worker = "get_frame"
    /\ \E seen \in FrameOutcomes :
          /\ w_seen' = seen
          /\ pc_worker' = IF seen.frame = "none" THEN "sleep" ELSE "frame_lock_wait"
    /\ UNCHANGED <<workerData, readerData, frame_lock, face_tracking_lock,
                   last_published, sections_waited>>

\* with self.frame_lock: entered
WorkerAcquireFrameLock ==
    /\ pc_worker = "frame_lock_wait"
    /\ LockFree(frame_lock)
    /\ frame_lock' = "worker"
    /\ pc_worker' = "frame_locked"
    /\ sections_waited' = CountSection("frame_waiting")
    /\ UNCHANGED <<workerData, readerData, w_seen, face_tracking_lock, last_published>>

\* self.latest_frame = frame, and the lock is released
WorkerStoreFrame ==
    /\ pc_worker = "frame_locked"
    /\ frame_lock' = ""
    /\ pc_worker' = "detect"
    /\ UNCHANGED <<workerData, readerData, w_seen, face_tracking_lock, last_published,
                   sections_waited>>

\* Lines 123-165, no lock held: the tracking switch is looked at, the detector
\* runs, look_at_image computes the target pose.  When detect_faces raises,
\* the pass goes to the sleep of the except clause.
WorkerDetect ==
    /\ pc_worker = "detect"
    /\ LET just_disabled == previous_tracking_state /\ ~is_head_tracking_enabled
           lost0  == IF just_disabled THEN <<0>> ELSE time_since_face_lost
           el0    == IF just_disabled THEN None ELSE elapsed_interpolation
           pose0  == IF just_disabled THEN None ELSE interpolation_start_pose
           found  == is_head_tracking_enabled /\ w_seen.frame \in {"face", "look_at_error"}
       IN  /\ previous_tracking_state' = is_head_tracking_enabled
           /\ time_since_face_lost' = IF found THEN <<0>> ELSE lost0
           /\ elapsed_interpolation' = IF found THEN None ELSE el0
           /\ interpolation_start_pose' = pose0
           /\ pc_worker' = IF is_head_tracking_enabled /\ w_seen.frame = "detector_error"
                            THEN "sleep"
                            ELSE IF is_head_tracking_enabled /\ w_seen.frame = "face"
                            THEN "smoothing_lock_wait"
                            ELSE "return_check"
    /\ UNCHANGED <<worker_stop, is_head_tracking_enabled, face_tracking_offsets,
                   readerData, w_seen, frame_lock, face_tracking_lock, last_published,
                   sections_waited>>

\* Lines 123-165 once more, one read of the tracking switch at a time: the
\* switch is an attribute written by another thread with no lock held, and
\* the pass reads it at line 126, at line 132 and at line 135.
\* Line 126-130: if previous_tracking_state and not self.is_head_tracking_enabled
WorkerTestSwitch ==
    /\ pc_worker = "detect"
    /\ IF previous_tracking_state /\ ~is_head_tracking_enabled
       THEN /\ time_since_face_lost' = <<0>>
            /\ elapsed_interpolation' = None
            /\ interpolation_start_pose' = None
       ELSE UNCHANGED <<time_since_face_lost, elapsed_interpolation,
                        interpolation_start_pose>>
    /\ pc_worker' = "record_switch"
    /\ UNCHANGED <<worker_stop, is_head_tracking_enabled, previous_tracking_state,
                   face_tracking_offsets, readerData, w_seen, frame_lock,
                   face_tracking_lock, last_published, sections_waited>>

\* Line 132: previous_tracking_state = self.is_head_tracking_enabled
WorkerRecordSwitch ==
    /\ pc_worker = "record_switch"
    /\ previous_tracking_state' = is_head_tracking_enabled
    /\ pc_worker' = "track"
    /\ UNCHANGED <<worker_stop, is_head_tracking_enabled, face_tracking_offsets,
                   time_since_face_lost, elapsed_interpolation, interpolation_start_pose,
                   readerData, w_seen, frame_lock, face_tracking_lock, last_published,
                   sections_waited>>

\* Lines 135-165: if self.is_head_tracking_enabled, the detector runs and a
\* face sets last_face_detected_time and clears interpolation_start_time
WorkerTrack ==
    /\ pc_worker = "track"
    /\ LET found == is_head_tracking_enabled /\ w_seen.frame \in {"face", "look_at_error"}
       IN  /\ time_since_face_lost' = IF found THEN <<0>> ELSE time_since_face_lost
           /\ elapsed_interpolation' = IF found THEN None ELSE elapsed_interpolation
           /\ pc_worker' = IF is_head_tracking_enabled /\ w_seen.frame = "detector_error"
                            THEN "sleep"
                            ELSE IF is_head_tracking_enabled /\ w_seen.frame = "face"
                            THEN "smoothing_lock_wait"
                            ELSE "return_check"
    /\ UNCHANGED <<worker_stop, is_head_tracking_enabled, previous_tracking_state,
                   face_tracking_offsets, interpolation_start_pose, readerData, w_seen,
                   frame_lock, face_tracking_lock, last_published, sections_waited>>

\* get_frame() returns a frame
WorkerGetsAFrame ==
    /\ WorkerGetFrame
    /\ w_seen'.frame # "none"

\* with self.face_tracking_lock: entered, for the smoothing
WorkerAcquireForSmoothing ==
    /\ pc_worker = "smoothing_lock_wait"
    /\ LockFree(face_tracking_lock)
    /\ face_tracking_lock' = "worker"
    /\ pc_worker' = "smoothing_locked"
    /\ sections_waited' = CountSection("offsets_waiting")
    /\ UNCHANGED <<workerData, readerData, w_seen, frame_lock, last_published>>

\* Lines 170-178: the smoothed tuple is built from old_offsets and assigned,
\* and the lock is released
WorkerSmooth ==
    /\ pc_worker = "smoothing_locked"
    /\ \E new_tuple \in {SmoothOffsets(w_seen.pose, face_tracking_offsets)} :
          /\ face_tracking_offsets' = StoreOffsets(face_tracking_offsets, new_tuple)
          /\ last_published' = new_tuple
    /\ face_tracking_lock' = ""
    /\ pc_worker' = "return_check"
    /\ UNCHANGED <<worker_stop, is_head_tracking_enabled, previous_tracking_state,
                   time_since_face_lost, elapsed_interpolation, interpolation_start_pose,
                   readerData, w_seen, frame_lock, sections_waited>>

\* Lines 185-191, no lock held: is the face gone long enough, and is an
\* interpolation under way
WorkerReturnCheck ==
    /\ pc_worker = "return_check"
    /\ IF time_since_face_lost # None /\ FaceLostLongEnough(time_since_face_lost)
       THEN IF elapsed_interpolation = None
            THEN /\ elapsed_interpolation' = <<0>>
                 /\ pc_worker' = "capture_lock_wait"
            ELSE /\ pc_worker' = "assign_lock_wait"
                 /\ UNCHANGED elapsed_interpolation
       ELSE /\ pc_worker' = "sleep"
            /\ UNCHANGED elapsed_interpolation
    /\ UNCHANGED <<worker_stop, is_head_tracking_enabled, previous_tracking_state,
                   face_tracking_offsets, time_since_face_lost, interpolation_start_pose,
                   readerData, w_seen, frame_lock, face_tracking_lock, last_published,
                   sections_waited>>

\* with self.face_tracking_lock: entered, for the capture of the start pose
WorkerAcquireForCapture ==
    /\ pc_worker = "capture_lock_wait"
    /\ LockFree(face_tracking_lock)
    /\ face_tracking_lock' = "worker"
    /\ pc_worker' = "capture_locked"
    /\ sections_waited' = CountSection("offsets_waiting")
    /\ UNCHANGED <<workerData, readerData, w_seen, frame_lock, last_published>>

\* Lines 194-202: the offsets are copied into interpolation_start_pose, and
\* the lock is released
WorkerCaptureStartPose ==
    /\ pc_worker = "capture_locked"
    /\ interpolation_start_pose' = face_tracking_offsets
    /\ face_tracking_lock' = ""
    /\ pc_worker' = "assign_lock_wait"
    /\ UNCHANGED <<worker_stop, is_head_tracking_enabled, previous_tracking_state,
                   face_tracking_offsets, time_since_face_lost, elapsed_interpolation,
                   readerData, w_seen, frame_lock, last_published, sections_waited>>

\* Lines 204-216 compute the interpolated pose with no lock held;
\* with self.face_tracking_lock: entered, for the assignment
WorkerAcquireForAssignment ==
    /\ pc_worker = "assign_lock_wait"
    /\ LockFree(face_tracking_lock)
    /\ face_tracking_lock' = "worker"
    /\ pc_worker' = "assign_locked"
    /\ sections_waited' = CountSection("offsets_waiting")
    /\ UNCHANGED <<workerData, readerData, w_seen, frame_lock, last_published>>

\* Lines 219-233: the interpolated tuple is assigned and the lock released;
\* at t >= 1.0 the timers are cleared
WorkerAssignInterpolated ==
    /\ pc_worker = "assign_locked"
    /\ \E new_tuple \in {InterpolateToNeutral(interpolation_start_pose,
                                               elapsed_interpolation[1])} :
          /\ face_tracking_offsets' = StoreOffsets(face_tracking_offsets, new_tuple)
          /\ last_published' = new_tuple
    /\ face_tracking_lock' = ""
    /\ IF InterpolationComplete(elapsed_interpolation[1])
       THEN /\ time_since_face_lost' = None
            /\ elapsed_interpolation' = None
            /\ interpolation_start_pose' = None
       ELSE UNCHANGED <<time_since_face_lost, elapsed_interpolation,
                        interpolation_start_pose>>
    /\ pc_worker' = "sleep"
    /\ UNCHANGED <<worker_stop, is_head_tracking_enabled, previous_tracking_state,
                   readerData, w_seen, frame_lock, sections_waited>>

\* time.sleep(0.033), or 0.01 without a frame, or 0.1 after an error: 10 ms
\* or more with no lock held, in which a caller waiting for a free lock gets it
WorkerSleep ==
    /\ pc_worker = "sleep"
    /\ ~(pc_reader = "offsets_waiting" /\ face_tracking_lock = "")
    /\ ~(pc_reader = "frame_waiting" /\ frame_lock = "")
    /\ pc_worker' = "loop_test"
    /\ w_seen' = None
    /\ UNCHANGED <<workerData, readerData, frame_lock, face_tracking_lock,
                   last_published, sections_waited>>

\* Half a second passes between two passes: a pass measures every time from
\* the current_time it read at its start
ClockTickBetweenPasses ==
    /\ pc_worker = "loop_test"
    /\ WorkerClockTick
    /\ UNCHANGED lockVars

\* A thread calls get_face_tracking_offsets() (main.py lines 111 and 171) and
\* comes to its with statement: it enters at once when the lock is free and
\* waits when the worker is in a critical section
CallGetFaceTrackingOffsets ==
    /\ pc_reader = "idle"
    /\ IF LockFree(face_tracking_lock)
       THEN /\ face_tracking_lock' = "reader"
            /\ pc_reader' = "offsets_locked"
            /\ sections_waited' = 0
       ELSE /\ pc_reader' = "offsets_waiting"
            /\ sections_waited' = 1
            /\ UNCHANGED face_tracking_lock
    /\ UNCHANGED <<workerData, pc_worker, w_seen, frame_lock, read_offsets,
                   last_published>>

\* The lock was released and the waiting caller is the one to take it (a
\* released threading.Lock goes to whichever thread takes it first)
ReaderAcquireOffsetsLock ==
    /\ pc_reader = "offsets_waiting"
    /\ LockFree(face_tracking_lock)
    /\ face_tracking_lock' = "reader"
    /\ pc_reader' = "offsets_locked"
    /\ UNCHANGED <<workerData, pc_worker, w_seen, frame_lock, read_offsets,
                   last_published, sections_waited>>

\* return self.face_tracking_offsets, and the lock is released
ReturnFaceTrackingOffsets ==
    /\ pc_reader = "offsets_locked"
    /\ read_offsets' = face_tracking_offsets
    /\ face_tracking_lock' = ""
    /\ pc_reader' = "idle"
    /\ UNCHANGED <<workerData, pc_worker, w_seen, frame_lock, last_published,
                   sections_waited>>

\* A thread calls get_latest_frame() and comes to its with statement
CallGetLatestFrame ==
    /\ pc_reader = "idle"
    /\ IF LockFree(frame_lock)
       THEN /\ frame_lock' = "reader"
            /\ pc_reader' = "frame_locked"
            /\ sections_waited' = 0
       ELSE /\ pc_reader' = "frame_waiting"
            /\ sections_waited' = 1
            /\ UNCHANGED frame_lock
    /\ UNCHANGED <<workerData, pc_worker, w_seen, face_tracking_lock, read_offsets,
                   last_published>>

\* The lock was released and the waiting caller is the one to take it
ReaderAcquireFrameLock ==
    /\ pc_reader = "frame_waiting"
    /\ LockFree(frame_lock)
    /\ frame_lock' = "reader"
    /\ pc_reader' = "frame_locked"
    /\ UNCHANGED <<workerData, pc_worker, w_seen, face_tracking_lock, read_offsets,
                   last_published, sections_waited>>

\* return self.latest_frame.copy() (or None), and the lock is released
ReturnLatestFrame ==
    /\ pc_reader = "frame_locked"
    /\ frame_lock' = ""
    /\ pc_reader' = "idle"
    /\ UNCHANGED <<workerData, pc_worker, w_seen, face_tracking_lock, read_offsets,
                   last_published, sections_waited>>

----------------------------------------------------------------------------
(* main.py: run(), the control loop and the web handlers *)

BrainPeriod == 10     \* the brain runs on every 10th pass

NeutralHead == [yaw |-> 0, pitch |-> 0, roll |-> 0]

\* has_face_tracking: some offset is more than 0.001 away from zero
HasFaceTracking(offsets) == \E f \in OffsetFields : offsets[f] # 0

\* compose_world_offset(base_head_pose, offset_matrix) read back as yaw, pitch
\* and roll: the offset rotation is applied on top of the base rotation.  The
\* angles add (exactly so when both rotate about the same axis); a rotation
\* matrix holds yaw modulo 360.
compose_world_offset(base, offsets) ==
    [ yaw   |-> NormalizeAngle(base.yaw + offsets.yaw),
      pitch |-> base.pitch + offsets.pitch,
      roll  |-> base.roll + offsets.roll ]

\* Lines 101-134: the pose handed to set_target(head=...)
FinalHeadPose(cmd, tracking, offsets) ==
    IF tracking /\ HasFaceTracking(offsets)
    THEN compose_world_offset(cmd, offsets)
    ELSE cmd

\* What graph.invoke calls on the camera: perception_node is bound to
\* reachy_mini (main.py line 40, graph.py create_graph), so vision_node takes
\* a frame with reachy_mini.media.get_frame() and runs process_camera_frame,
\* the YOLO detection and the tracker, on it (vision_node.py lines 227-251)
VisionNodeCalls == {"media.get_frame", "process_camera_frame"}

\* What the rest of the pass calls on the camera worker (main.py lines 110-111)
TrackingCalls(tracking) == IF tracking THEN {"get_face_tracking_offsets"} ELSE {}

\* Mutant: a pass with the brain switched off commands the neutral pose
HeadTargetNeutralWithoutBrain(last_target) == NeutralHead

\* Lines 93-149 with brain_enabled false: the pass calls set_target with the
\* antennas only, and the head keeps the target it was given last
HeadTargetWithoutBrain(last_target) == last_target

\* One pass of the while loop.  graph.invoke raising ends run() through the
\* finally clause, which stops the camera worker.
ControlTick ==
    /\ pc_main = "loop"
    /\ ~stop_event
    /\ IF brain_enabled
       THEN LET due == brain_cycle_counter + 1 >= BrainPeriod
            IN  \E seen \in (IF due THEN PerceptionOutcomes ELSE {None}) :
                \E inv \in {graph_invoke(head, seen)} :
                   IF due /\ inv.raised
                   THEN /\ pc_main' = "crashed"
                        /\ worker_stop' = TRUE
                        /\ brain_cycle_counter' = brain_cycle_counter + 1
                        /\ UNCHANGED <<head, exec_in, violations, head_target,
                                       antennas_target>>
                   ELSE /\ head' = IF due THEN inv.head ELSE head
                        /\ exec_in' = IF due THEN inv.exec_in ELSE exec_in
                        /\ violations' = IF due THEN inv.violations ELSE violations
                        /\ brain_cycle_counter' = IF due THEN 0 ELSE brain_cycle_counter + 1
                        /\ head_target' = FinalHeadPose(head', face_tracking_enabled,
                                                        face_tracking_offsets)
                        /\ antennas_target' = <<0, 0>>
                        /\ UNCHANGED <<pc_main, worker_stop>>
       ELSE /\ head_target' = HeadTargetWithoutBrain(head_target)
            /\ antennas_target' = <<0, 0>>
            /\ UNCHANGED <<head, exec_in, violations, brain_cycle_counter,
                           pc_main, worker_stop>>
    /\ UNCHANGED <<stop_event, brain_enabled, face_tracking_enabled,
                   is_head_tracking_enabled, previous_tracking_state,
                   face_tracking_offsets, time_since_face_lost,
                   elapsed_interpolation, interpolation_start_pose>>

\* Mutant: the loop's exit leaves the pose last commanded in place
ExitHeadPoseLeftEngaged(last_target) == last_target

\* create_head_pose(yaw=0.0, pitch=0.0, roll=0.0), whatever was commanded last
ExitHeadPose(last_target) == NeutralHead

\* The pass, with its calls on the camera and the camera worker written down:
\* the brain's on every 10th pass, then the read of the offsets unless
\* graph.invoke raised
WatchedControlTick ==
    /\ ControlTick
    /\ tick_calls' =
          IF brain_enabled
          THEN (IF brain_cycle_counter + 1 >= BrainPeriod THEN VisionNodeCalls ELSE {})
               \cup (IF pc_main' = "crashed" THEN {}
                     ELSE TrackingCalls(face_tracking_enabled))
          ELSE {}

\* The loop condition fails: the while's else clause commands the neutral
\* pose (lines 150-156)
LoopExit ==
    /\ pc_main = "loop"
    /\ stop_event
    /\ head_target' = ExitHeadPose(head_target)
    /\ antennas_target' = <<0, 0>>
    /\ pc_main' = "after_loop"
    /\ UNCHANGED <<head, exec_in, violations, stop_event, brain_enabled,
                   face_tracking_enabled, brain_cycle_counter, worker_stop,
                   is_head_tracking_enabled, previous_tracking_state,
                   face_tracking_offsets, time_since_face_lost,
                   elapsed_interpolation, interpolation_start_pose>>

\* The code after the loop runs once (lines 158-196, no command to the head)
\* and the finally clause calls camera_worker.stop(), which sets the worker's
\* stop event
FinallyStopWorker ==
    /\ pc_main = "after_loop"
    /\ worker_stop' = TRUE
    /\ pc_main' = "stopped"
    /\ UNCHANGED <<head, exec_in, violations, stop_event, brain_enabled,
                   face_tracking_enabled, brain_cycle_counter, head_target,
                   antennas_target,
                   is_head_tracking_enabled, previous_tracking_state,
                   face_tracking_offsets, time_since_face_lost,
                   elapsed_interpolation, interpolation_start_pose>>

\* The app framework asks run() to stop
SetStopEvent ==
    /\ ~stop_event
    /\ stop_event' = TRUE
    /\ UNCHANGED <<brainVars, workerVars, pc_main, brain_enabled, face_tracking_enabled,
                   brain_cycle_counter, head_target, antennas_target>>

\* POST /brain
update_brain_state ==
    /\ \E enabled \in BOOLEAN : brain_enabled' = enabled
    /\ UNCHANGED <<brainVars, workerVars, pc_main, stop_event, face_tracking_enabled,
                   brain_cycle_counter, head_target, antennas_target>>

\* POST /face_tracking
update_face_tracking_state ==
    /\ \E enabled \in BOOLEAN :
          /\ face_tracking_enabled' = enabled
          /\ is_head_tracking_enabled' = enabled
    /\ UNCHANGED <<brainVars, pc_main, stop_event, brain_enabled, brain_cycle_counter,
                   head_target, antennas_target, worker_stop,
                   previous_tracking_state, face_tracking_offsets,
                   time_since_face_lost, elapsed_interpolation,
                   interpolation_start_pose>>

----------------------------------------------------------------------------
(* Tracker operations *)

Update ==
    /\ \A tid \in DOMAIN tracks : tracks[tid].frames_tracked < MaxFramesTracked
    /\ \E fs \in FaceLists :
          /\ next_id + Len(fs) <= MaxId + 1
          /\ \E r \in {UpdateResult(tracks, next_id, fs, now)} :
                 /\ tracks' = r.tracks
                 /\ next_id' = r.next_id
                 /\ faces' = fs
                 /\ matched_tracks' = r.matched_tracks
                 /\ matched_detections' = r.matched_detections
                 /\ stale_ids' = r.stale_ids
                 /\ returned' = r.returned
                 /\ ever_assigned' = ever_assigned \cup r.created
                 /\ assigned' = assigned \cup r.created
    /\ op' = "update"
    /\ primary' = None      \* no selection made yet on the new list
    /\ UNCHANGED now

\* update(faces) on a tracker that may hold several tracks, with the call
\* written down: kin_call keeps the tracker as the call found it, the
\* detections and current_time, kin_result the pairs in the order the matching
\* loop bound them and the ids the creation loop handed out
WatchedUpdate ==
    /\ \A tid \in DOMAIN tracks : tracks[tid].frames_tracked < MatchMaxFramesTracked
    /\ \E fs \in FaceLists :
          /\ next_id + Len(fs) <= MatchMaxId + 1
          /\ \E r \in {UpdateResult(tracks, next_id, fs, now)} :
                 /\ tracks' = r.tracks
                 /\ next_id' = r.next_id
                 /\ faces' = fs
                 /\ matched_tracks' = r.matched_tracks
                 /\ matched_detections' = r.matched_detections
                 /\ stale_ids' = r.stale_ids
                 /\ returned' = r.returned
                 /\ ever_assigned' = ever_assigned \cup r.created
                 /\ assigned' = assigned \cup r.created
                 /\ kin_call' = [ fn |-> "update", tracks |-> tracks, faces |-> fs,
                                  current_time |-> now ]
                 /\ kin_result' = [ binds |-> r.binds, created |-> r.created ]
    /\ op' = "update"
    /\ primary' = None
    /\ UNCHANGED now

\* select_primary_face(tracked_faces, frame_width, frame_height), called with
\* the list the latest update returned (process_camera_frame, line 318)
SelectPrimary ==
    /\ op = "update"
    /\ primary' = select_primary_face(returned, FrameWidth, FrameHeight)
    /\ op' = "select_primary_face"
    /\ UNCHANGED <<now, tracks, next_id, faces, matched_tracks, matched_detections,
                   stale_ids, returned, ever_assigned, assigned>>

\* Mutant: reset leaves the id counter where it is
NextIdKeptByReset(nid) == nid

\* self.next_id = 1 (line 283), whatever it was
NextIdAfterReset(nid) == 1

\* FaceTracker.reset
Reset ==
    /\ tracks' = <<>>
    /\ next_id' = NextIdAfterReset(next_id)
    /\ op' = "reset"
    /\ assigned' = {}
    /\ primary' = None
    /\ UNCHANGED <<now, faces, matched_tracks, matched_detections, stale_ids,
                   returned, ever_assigned>>

\* The wall clock advances between calls
Tick ==
    /\ now < MaxTime
    /\ now' = now + 1
    /\ UNCHANGED <<tracks, next_id, faces, matched_tracks, matched_detections,
                   stale_ids, returned, primary, op, ever_assigned, assigned>>

TrackerInit ==
    /\ now = 0
    /\ tracks = <<>>
    /\ next_id = 1
    /\ faces = <<>>
    /\ matched_tracks = {}
    /\ matched_detections = {}
    /\ stale_ids = {}
    /\ returned = <<>>
    /\ primary = None
    /\ op = "init"
    /\ ever_assigned = {}
    /\ assigned = {}

KinIdle ==
    /\ kin_call = None
    /\ kin_result = None

\* create_initial_state(): HeadCommand() defaults
BrainInit ==
    /\ head = [yaw |-> 0, pitch |-> 0, roll |-> 0]
    /\ exec_in = None
    /\ violations = <<>>

\* run() up to the loop: the settings, the counter, nothing commanded yet
ControlInit ==
    /\ pc_main = "loop"
    /\ stop_event = FALSE
    /\ brain_enabled = TRUE
    /\ face_tracking_enabled = TRUE
    /\ brain_cycle_counter = 0
    /\ head_target = None
    /\ antennas_target = None

\* CameraWorker.__init__ and start()
WorkerInit ==
    /\ worker_stop = FALSE
    /\ is_head_tracking_enabled = TRUE
    /\ previous_tracking_state = TRUE
    /\ face_tracking_offsets = NeutralOffsets
    /\ time_since_face_lost = None
    /\ elapsed_interpolation = None
    /\ interpolation_start_pose = None

\* Nothing has run yet
ThreadInit ==
    /\ worker_saw = ""
    /\ returns_started = 0
    /\ tick_calls = {}
    /\ pc_worker = "loop_test"
    /\ w_seen = None
    /\ frame_lock = ""
    /\ face_tracking_lock = ""
    /\ pc_reader = "idle"
    /\ read_offsets = None
    /\ last_published = NeutralOffsets
    /\ sections_waited = 0
    /\ worker_threads = <<>>
    /\ pc_caller = "constructed"
    /\ updates_after_stop = 0

(* The tracker on its own: update, select_primary_face, reset and the clock *)

Init == TrackerInit /\ KinIdle /\ BrainInit /\ ControlInit /\ WorkerInit /\ ThreadInit

Next ==
    \/ Update /\ UNCHANGED <<kinVars, brainVars, controlVars, workerVars, threadVars>>
    \/ SelectPrimary /\ UNCHANGED <<kinVars, brainVars, controlVars, workerVars, threadVars>>
    \/ Reset /\ UNCHANGED <<kinVars, brainVars, controlVars, workerVars, threadVars>>
    \/ Tick /\ UNCHANGED <<kinVars, brainVars, controlVars, workerVars, threadVars>>

Spec == Init /\ [][Next]_vars

(* update on a tracker holding several tracks, and the clock *)

MatchInit == TrackerInit /\ KinIdle /\ BrainInit /\ ControlInit /\ WorkerInit /\ ThreadInit

MatchNext ==
    \/ WatchedUpdate /\ UNCHANGED <<brainVars, controlVars, workerVars, threadVars>>
    \/ Tick /\ UNCHANGED <<kinVars, brainVars, controlVars, workerVars, threadVars>>

SpecMatch == MatchInit /\ [][MatchNext]_vars

(* start() and stop() called one after the other on a CameraWorker, its
   loop threads and the clock *)

LifeInit == TrackerInit /\ KinIdle /\ BrainInit /\ ControlInit /\ WorkerInit /\ ThreadInit

othersInLife == <<trackerVars, kinVars, brainVars, controlVars, worker_saw,
                  returns_started, tick_calls, lockVars>>

LifeNext ==
    \/ start /\ UNCHANGED othersInLife
    \/ StopCall /\ UNCHANGED othersInLife
    \/ StopReturn /\ UNCHANGED othersInLife
    \/ ThreadLoopTest /\ UNCHANGED othersInLife
    \/ ThreadPass /\ UNCHANGED othersInLife
    \/ WorkerClockTick /\ UNCHANGED <<trackerVars, kinVars, brainVars, controlVars, threadVars>>

SpecLife == LifeInit /\ [][LifeNext]_vars

(* apply_safety_limits as a function of its arguments *)

KinInit == TrackerInit /\ KinIdle /\ BrainInit /\ ControlInit /\ WorkerInit /\ ThreadInit

KinNext ==
    \/ CallApplySafetyLimits /\ UNCHANGED <<trackerVars, brainVars, controlVars, workerVars, threadVars>>
    \/ ApplySafetyLimits /\ UNCHANGED <<trackerVars, brainVars, controlVars, workerVars, threadVars>>
    \/ ReapplySafetyLimits /\ UNCHANGED <<trackerVars, brainVars, controlVars, workerVars, threadVars>>

SpecKinematics == KinInit /\ [][KinNext]_vars

(* smooth_transition on any pair of angles *)

SmoothInit == TrackerInit /\ KinIdle /\ BrainInit /\ ControlInit /\ WorkerInit /\ ThreadInit

SmoothNext ==
    \/ CallSmoothTransition /\ UNCHANGED <<trackerVars, brainVars, controlVars, workerVars, threadVars>>
    \/ SmoothTransition /\ UNCHANGED <<trackerVars, brainVars, controlVars, workerVars, threadVars>>

SpecSmooth == SmoothInit /\ [][SmoothNext]_vars

(* select_primary_face as a function of the track list *)

SelectInit == TrackerInit /\ KinIdle /\ BrainInit /\ ControlInit /\ WorkerInit /\ ThreadInit

SelectNext ==
    \/ CallSelectPrimaryFace /\ UNCHANGED <<trackerVars, brainVars, controlVars, workerVars, threadVars>>
    \/ SelectPrimaryFace /\ UNCHANGED <<trackerVars, brainVars, controlVars, workerVars, threadVars>>

SpecSelect == SelectInit /\ [][SelectNext]_vars

\* The look-at functions called on their own
LookAtInit == TrackerInit /\ KinIdle /\ BrainInit /\ ControlInit /\ WorkerInit /\ ThreadInit

LookAtNext ==
    \/ CallCalculateLookAtAngles /\ UNCHANGED <<trackerVars, brainVars, controlVars, workerVars, threadVars>>
    \/ CalculateLookAtAngles /\ UNCHANGED <<trackerVars, brainVars, controlVars, workerVars, threadVars>>
    \/ CallCalculateLookAtWithSafety /\ UNCHANGED <<trackerVars, brainVars, controlVars, workerVars, threadVars>>
    \/ CalculateLookAtWithSafety /\ UNCHANGED <<trackerVars, brainVars, controlVars, workerVars, threadVars>>

SpecLookAt == LookAtInit /\ [][LookAtNext]_vars

----------------------------------------------------------------------------
(* face_tracker.py: estimate_3d_position.  Pixels are whole, the focal length
   is in thousandths of a pixel, positions are millimetres, the field of view
   an even number of whole degrees. *)

AssumedHeadWidth == 200   \* assumed_head_width = 0.2 m
MinDepth == 300           \* np.clip(estimated_depth, 0.3, 5.0)
MaxDepth == 5000

\* frame_width / (2 * tan(camera_fov_horizontal / 2))
FocalLengthPixels(frame_width, camera_fov_horizontal) ==
    (frame_width * 1000000) \div (2 * TanMilli[camera_fov_horizontal \div 2])

\* Mutant: the depth grows with the width of the box
DepthGrowingWithWidth(focal_length_pixels, width) ==
    (focal_length_pixels \div 1000) * width

\* (focal_length_pixels * assumed_head_width) / face.width
UnclampedDepth(focal_length_pixels, width) ==
    (focal_length_pixels * AssumedHeadWidth) \div (1000 * width)

\* Mutant: the depth is clipped from below only
ClipDepthFromBelow(estimated_depth) ==
    IF estimated_depth < MinDepth THEN MinDepth ELSE estimated_depth

\* np.clip(estimated_depth, 0.3, 5.0)
ClipDepth(estimated_depth) ==
    IF estimated_depth < MinDepth THEN MinDepth
    ELSE IF estimated_depth > MaxDepth THEN MaxDepth
    ELSE estimated_depth

estimate_3d_position(track, frame_width, frame_height, camera_fov_horizontal) ==
    LET face == track.face
        cx2 == 2 * face.x + face.width
        cy2 == 2 * face.y + face.height
        focal_length_pixels == FocalLengthPixels(frame_width, camera_fov_horizontal)
        estimated_depth == ClipDepth(UnclampedDepth(focal_length_pixels, face.width))
    IN  [ x |-> RoundDiv((cx2 - frame_width) * estimated_depth * 100,
                         2 * (focal_length_pixels \div 10)),
          y |-> 0 - RoundDiv((cy2 - frame_height) * estimated_depth * 100,
                             2 * (focal_length_pixels \div 10)),
          z |-> estimated_depth ]

\* Square boxes of these widths around the frame centre of a 640 x 480 frame
\* and around (200, 200), confidence 0.9
DepthWidths == {4, 50, 100, 200, 500}
DepthCentres == {<<320, 240>>, <<200, 200>>}
DepthFace(centre, w) == MkFace(centre[1] - w \div 2, centre[2] - w \div 2, w, w, 90)
DepthFrames == {<<320, 240>>, <<640, 480>>, <<1280, 720>>}
DepthFovs == {60, 90, 120}

\* A caller picks a track, as update hands it out for a new detection, a frame
\* size and a field of view
CallEstimate3dPosition ==
    /\ kin_call = None
    /\ \E c \in DepthCentres, w \in DepthWidths, fr \in DepthFrames, fov \in DepthFovs :
          kin_call' = [ fn |-> "estimate_3d_position",
                        track |-> NewTrack(1, DepthFace(c, w), 0),
                        frame_width |-> fr[1], frame_height |-> fr[2],
                        camera_fov_horizontal |-> fov ]
    /\ UNCHANGED kin_result

\* estimate_3d_position returns
Estimate3dPosition ==
    /\ kin_call # None
    /\ kin_call.fn = "estimate_3d_position"
    /\ kin_result = None
    /\ kin_result' = estimate_3d_position(kin_call.track, kin_call.frame_width,
                                           kin_call.frame_height,
                                           kin_call.camera_fov_horizontal)
    /\ UNCHANGED kin_call

\* The caller asks again for a track with the same centroid and confidence and
\* a strictly wider box, in the same frame; narrower_width and narrower_z keep
\* the width and the depth of the first call
CallEstimate3dPositionWider ==
    /\ kin_call # None
    /\ kin_call.fn = "estimate_3d_position"
    /\ kin_result # None
    /\ "narrower_z" \notin DOMAIN kin_call
    /\ \E c \in DepthCentres, w \in DepthWidths :
          /\ w > kin_call.track.face.width
          /\ Centroid(DepthFace(c, w)) = kin_call.track.centroid
          /\ kin_call' = [ fn |-> "estimate_3d_position",
                           track |-> NewTrack(1, DepthFace(c, w), 0),
                           frame_width |-> kin_call.frame_width,
                           frame_height |-> kin_call.frame_height,
                           camera_fov_horizontal |-> kin_call.camera_fov_horizontal,
                           narrower_width |-> kin_call.track.face.width,
                           narrower_z |-> kin_result.z ]
    /\ kin_result' = None

DepthInit == TrackerInit /\ KinIdle /\ BrainInit /\ ControlInit /\ WorkerInit /\ ThreadInit

DepthNext ==
    \/ CallEstimate3dPosition /\ UNCHANGED <<trackerVars, brainVars, controlVars, workerVars, threadVars>>
    \/ Estimate3dPosition /\ UNCHANGED <<trackerVars, brainVars, controlVars, workerVars, threadVars>>
    \/ CallEstimate3dPositionWider /\ UNCHANGED <<trackerVars, brainVars, controlVars, workerVars, threadVars>>

SpecDepth == DepthInit /\ [][DepthNext]_vars

----------------------------------------------------------------------------
(* state.py: add_log.  Of the BrainState the model keeps metadata.logs; a
   message is the number of the call that adds it, and datetime.now() is
   the clock. *)

MaxLogs == 100    \* if len(updated.metadata.logs) > 100

\* create_initial_state(): BrainState() with logs = []
create_initial_state == [ logs |-> <<>> ]

\* log_entry = f"{datetime.now().isoformat()}: {message}"
LogEntry(t_now, message) == [ timestamp |-> t_now, message |-> message ]

\* Mutant: the oldest 100 entries are kept
KeepFirstLogs(logs) ==
    IF Len(logs) > MaxLogs THEN SubSeq(logs, 1, MaxLogs) ELSE logs

\* updated.metadata.logs = updated.metadata.logs[-100:], when there are more
KeepLastLogs(logs) ==
    IF Len(logs) > MaxLogs THEN SubSeq(logs, Len(logs) - MaxLogs + 1, Len(logs)) ELSE logs

\* add_log(state, message): the entry is appended to a deep copy, which is
\* returned; given is the caller's state as the call leaves it
add_log(state, message, t_now) ==
    LET updated == state
    IN  [ given    |-> state,
          returned |-> [ logs |-> KeepLastLogs(Append(updated.logs,
                                                      LogEntry(t_now, message))) ] ]

\* A caller adds a message to the state the previous call returned (to the
\* initial state the first time), as the nodes of a brain cycle do
CallAddLog ==
    /\ kin_call = None \/ kin_result # None
    /\ kin_call # None => kin_call.message < MaxLogCalls
    /\ kin_call' = [ fn      |-> "add_log",
                     state   |-> IF kin_call = None THEN create_initial_state
                                                    ELSE kin_result.returned,
                     message |-> IF kin_call = None THEN 1 ELSE kin_call.message + 1 ]
    /\ kin_result' = None

\* add_log returns
AddLog ==
    /\ kin_call # None
    /\ kin_call.fn = "add_log"
    /\ kin_result = None
    /\ kin_result' = add_log(kin_call.state, kin_call.message, now)
    /\ UNCHANGED kin_call

LogInit == TrackerInit /\ KinIdle /\ BrainInit /\ ControlInit /\ WorkerInit /\ ThreadInit

LogNext ==
    \/ CallAddLog /\ UNCHANGED <<trackerVars, brainVars, controlVars, workerVars, threadVars>>
    \/ AddLog /\ UNCHANGED <<trackerVars, brainVars, controlVars, workerVars, threadVars>>

SpecLog == LogInit /\ [][LogNext]_vars

----------------------------------------------------------------------------
(* graph.py: cognition_node, cycle after cycle, on its own *)

\* Head commands inside the envelope that the cycles start from
StartHeads ==
    { [yaw |-> 0, pitch |-> 0, roll |-> 0],
      [yaw |-> 180, pitch |-> 40, roll |-> 40],
      [yaw |-> -180, pitch |-> -40, roll |-> -40],
      [yaw |-> 170, pitch |-> -40, roll |-> 0] }

\* What the world model holds for the primary human: none, or a position
\* (x right, y up, z depth, centimetres): ahead, to either side, overhead,
\* far off to one side, behind
CognitionHumans ==
    { None,
      [x |-> 0,    y |-> -26,  z |-> 100],
      [x |-> 25,   y |-> 0,    z |-> 100],
      [x |-> -25,  y |-> 0,    z |-> 100],
      [x |-> 0,    y |-> 100,  z |-> 0],
      [x |-> 300,  y |-> 0,    z |-> 30],
      [x |-> -300, y |-> -200, z |-> 30],
      [x |-> 0,    y |-> 0,    z |-> -100] }

CognitionProgressInputs == {500, 1000, 1200}

\* One run of cognition_node on the state: constructing HeadCommand from the
\* angles raises when they are outside the field constraints, and the state
\* then keeps its head command.  exec_in keeps what the node was given.  The
\* cycles are followed up to the call below.
CognitionNode ==
    /\ kin_call = None
    /\ \E h \in CognitionHumans :
          \E thought \in {cognition_node(head, h)} :
              /\ exec_in' = [ human |-> h, before |-> head,
                              raised |-> ~HeadCommandValid(thought) ]
              /\ head' = IF HeadCommandValid(thought) THEN thought ELSE head
    /\ UNCHANGED violations

\* A caller asks calculate_look_at_with_safety for the look at a human from
\* the head command of the moment, with the axes as cognition_node passes them
CallLookAtFromHead ==
    /\ kin_call = None
    /\ \E h \in CognitionHumans \ {None}, p \in CognitionProgressInputs,
          e \in LookAtEasingInputs :
          kin_call' = [ fn |-> "calculate_look_at_with_safety", target_x |-> h.z,
                        target_y |-> h.x, target_z |-> h.y, current_yaw |-> head.yaw,
                        current_pitch |-> head.pitch, current_roll |-> head.roll,
                        body_yaw |-> 0, progress |-> p, easing |-> e ]
    /\ UNCHANGED kin_result

CognitionInit ==
    /\ TrackerInit /\ KinIdle /\ ControlInit /\ WorkerInit /\ ThreadInit
    /\ head \in StartHeads
    /\ exec_in = None
    /\ violations = <<>>

CognitionNext ==
    \/ CognitionNode /\ UNCHANGED <<trackerVars, kinVars, controlVars, workerVars, threadVars>>
    \/ CallLookAtFromHead /\ UNCHANGED <<trackerVars, brainVars, controlVars, workerVars, threadVars>>
    \/ CalculateLookAtWithSafety /\ UNCHANGED <<trackerVars, brainVars, controlVars, workerVars, threadVars>>

SpecCognition == CognitionInit /\ [][CognitionNext]_vars

(* execution_node on any head command *)

ExecInit == TrackerInit /\ KinIdle /\ BrainInit /\ ControlInit /\ WorkerInit /\ ThreadInit

ExecNext ==
    \/ SetHeadCommand /\ UNCHANGED <<trackerVars, kinVars, controlVars, workerVars, threadVars>>
    \/ ExecutionNode /\ UNCHANGED <<trackerVars, kinVars, controlVars, workerVars, threadVars>>

SpecExecution == ExecInit /\ [][ExecNext]_vars

(* The control loop, the web handlers and the camera worker side by side *)

ControlLoopInit == TrackerInit /\ KinIdle /\ BrainInit /\ ControlInit /\ WorkerInit /\ ThreadInit

ControlNext ==
    \/ ControlTick /\ UNCHANGED <<trackerVars, kinVars, threadVars>>
    \/ LoopExit /\ UNCHANGED <<trackerVars, kinVars, threadVars>>
    \/ FinallyStopWorker /\ UNCHANGED <<trackerVars, kinVars, threadVars>>
    \/ SetStopEvent /\ UNCHANGED <<trackerVars, kinVars, threadVars>>
    \/ update_brain_state /\ UNCHANGED <<trackerVars, kinVars, threadVars>>
    \/ update_face_tracking_state /\ UNCHANGED <<trackerVars, kinVars, threadVars>>
    \/ WorkerIteration /\ UNCHANGED <<trackerVars, kinVars, brainVars, controlVars, threadVars>>
    \/ WorkerClockTick /\ UNCHANGED <<trackerVars, kinVars, brainVars, controlVars, threadVars>>

SpecControl == ControlLoopInit /\ [][ControlNext]_vars

(* The control loop and the web handlers, with the calls of each pass *)

TickInit == TrackerInit /\ KinIdle /\ BrainInit /\ ControlInit /\ WorkerInit /\ ThreadInit

TickNext ==
    \/ WatchedControlTick /\ UNCHANGED <<trackerVars, kinVars, worker_saw, returns_started, lockVars, lifeVars>>
    \/ LoopExit /\ UNCHANGED <<trackerVars, kinVars, threadVars>>
    \/ FinallyStopWorker /\ UNCHANGED <<trackerVars, kinVars, threadVars>>
    \/ SetStopEvent /\ UNCHANGED <<trackerVars, kinVars, threadVars>>
    \/ update_brain_state /\ UNCHANGED <<trackerVars, kinVars, threadVars>>
    \/ update_face_tracking_state /\ UNCHANGED <<trackerVars, kinVars, threadVars>>

SpecTick == TickInit /\ [][TickNext]_vars

(* The camera worker's pass step by step beside a thread calling its getters *)

ThreadsInit == TrackerInit /\ KinIdle /\ BrainInit /\ ControlInit /\ WorkerInit /\ ThreadInit

othersInThreads == <<trackerVars, kinVars, brainVars, controlVars, worker_saw,
                     returns_started, tick_calls, lifeVars>>

ThreadsNext ==
    \/ WorkerLoopTest /\ UNCHANGED othersInThreads
    \/ WorkerGetFrame /\ UNCHANGED othersInThreads
    \/ WorkerAcquireFrameLock /\ UNCHANGED othersInThreads
    \/ WorkerStoreFrame /\ UNCHANGED othersInThreads
    \/ WorkerDetect /\ UNCHANGED othersInThreads
    \/ WorkerAcquireForSmoothing /\ UNCHANGED othersInThreads
    \/ WorkerSmooth /\ UNCHANGED othersInThreads
    \/ WorkerReturnCheck /\ UNCHANGED othersInThreads
    \/ WorkerAcquireForCapture /\ UNCHANGED othersInThreads
    \/ WorkerCaptureStartPose /\ UNCHANGED othersInThreads
    \/ WorkerAcquireForAssignment /\ UNCHANGED othersInThreads
    \/ WorkerAssignInterpolated /\ UNCHANGED othersInThreads
    \/ WorkerSleep /\ UNCHANGED othersInThreads
    \/ ClockTickBetweenPasses /\ UNCHANGED othersInThreads
    \/ CallGetFaceTrackingOffsets /\ UNCHANGED othersInThreads
    \/ ReaderAcquireOffsetsLock /\ UNCHANGED othersInThreads
    \/ ReturnFaceTrackingOffsets /\ UNCHANGED othersInThreads
    \/ CallGetLatestFrame /\ UNCHANGED othersInThreads
    \/ ReaderAcquireFrameLock /\ UNCHANGED othersInThreads
    \/ ReturnLatestFrame /\ UNCHANGED othersInThreads
    \/ update_face_tracking_state /\ UNCHANGED <<trackerVars, kinVars, threadVars>>

SpecThreads == ThreadsInit /\ [][ThreadsNext]_vars

(* The camera worker on its own, with the tracking switch and the clock *)

WorkerLoopInit == TrackerInit /\ KinIdle /\ BrainInit /\ ControlInit /\ WorkerInit /\ ThreadInit

WorkerNext ==
    \/ WatchedWorkerIteration /\ UNCHANGED <<trackerVars, kinVars, brainVars, controlVars, tick_calls, lockVars, lifeVars>>
    \/ WorkerClockTick /\ UNCHANGED <<trackerVars, kinVars, brainVars, controlVars, threadVars>>
    \/ update_face_tracking_state /\ UNCHANGED <<trackerVars, kinVars, threadVars>>

SpecWorker == WorkerLoopInit /\ [][WorkerNext]_vars

(* The camera worker's pass with each read of the tracking switch a step of
   its own, beside the thread that sets the switch.  The worker thread keeps
   running, frames keep arriving and time passes between passes. *)

SwitchInit == TrackerInit /\ KinIdle /\ BrainInit /\ ControlInit /\ WorkerInit /\ ThreadInit

WorkerPassStep ==
    \/ WorkerLoopTest
    \/ WorkerGetFrame
    \/ WorkerAcquireFrameLock
    \/ WorkerStoreFrame
    \/ WorkerTestSwitch
    \/ WorkerRecordSwitch
    \/ WorkerTrack
    \/ WorkerAcquireForSmoothing
    \/ WorkerSmooth
    \/ WorkerReturnCheck
    \/ WorkerAcquireForCapture
    \/ WorkerCaptureStartPose
    \/ WorkerAcquireForAssignment
    \/ WorkerAssignInterpolated
    \/ WorkerSleep

SwitchNext ==
    \/ WorkerLoopTest /\ UNCHANGED othersInThreads
    \/ WorkerGetFrame /\ UNCHANGED othersInThreads
    \/ WorkerAcquireFrameLock /\ UNCHANGED othersInThreads
    \/ WorkerStoreFrame /\ UNCHANGED othersInThreads
    \/ WorkerTestSwitch /\ UNCHANGED othersInThreads
    \/ WorkerRecordSwitch /\ UNCHANGED othersInThreads
    \/ WorkerTrack /\ UNCHANGED othersInThreads
    \/ WorkerAcquireForSmoothing /\ UNCHANGED othersInThreads
    \/ WorkerSmooth /\ UNCHANGED othersInThreads
    \/ WorkerReturnCheck /\ UNCHANGED othersInThreads
    \/ WorkerAcquireForCapture /\ UNCHANGED othersInThreads
    \/ WorkerCaptureStartPose /\ UNCHANGED othersInThreads
    \/ WorkerAcquireForAssignment /\ UNCHANGED othersInThreads
    \/ WorkerAssignInterpolated /\ UNCHANGED othersInThreads
    \/ WorkerSleep /\ UNCHANGED othersInThreads
    \/ ClockTickBetweenPasses /\ UNCHANGED othersInThreads
    \/ update_face_tracking_state /\ UNCHANGED <<trackerVars, kinVars, threadVars>>

SpecSwitch ==
    /\ SwitchInit
    /\ [][SwitchNext]_vars
    /\ WF_vars(WorkerPassStep /\ UNCHANGED othersInThreads)
    /\ SF_vars(WorkerGetsAFrame /\ UNCHANGED othersInThreads)
    /\ SF_vars(ClockTickBetweenPasses /\ UNCHANGED othersInThreads)

----------------------------------------------------------------------------
(* Properties of the tracker *)

\* A step that is a call of update
UpdateStep == op' = "update" /\ now' = now

\* Ids of tracks that exist after the step and did not before
NewIds == DOMAIN tracks' \ DOMAIN tracks

\* Detections of the call that the matching loop left unmatched, and the
\* number of unmatched detections before position i
UnmatchedDets == { i \in 1..Len(faces') : i \notin matched_detections' }
Rank(i) == Cardinality({ j \in UnmatchedDets : j < i })

\* C4: identity persistence.  When the tracker holds one track and update is
\* given exactly one detection whose centroid is within max_match_distance of
\* it, the tracker afterwards holds exactly that track, with the same id and
\* frames_tracked grown by one.
C4_IdentityPersistence ==
    [][ ( /\ UpdateStep
          /\ Cardinality(DOMAIN tracks) = 1
          /\ Len(faces') = 1
          /\ \A tid \in DOMAIN tracks :
                Dist2(tracks[tid].centroid,
                      <<2 * faces'[1].x + faces'[1].width,
                        2 * faces'[1].y + faces'[1].height>>) <= 4 * 100 * 100 )
        => ( /\ DOMAIN tracks' = DOMAIN tracks
             /\ \A tid \in DOMAIN tracks :
                   /\ tracks'[tid].persistent_id = tracks[tid].persistent_id
                   /\ tracks'[tid].frames_tracked = tracks[tid].frames_tracked + 1
                   /\ returned' = <<tracks'[tid]>> ) ]_vars

\* C4 witness: a single track that was matched by the single detection of the call
C4_Witness ==
    /\ op = "update"
    /\ Len(faces) = 1
    /\ matched_detections = {1}
    /\ \E tid \in DOMAIN tracks :
          /\ DOMAIN tracks = {tid}
          /\ tracks[tid].frames_tracked = 2
          /\ tracks[tid].face = faces[1]

\* The id fields agree with the dict keys and no id occurs twice in the list
UniqueIds(trks, lst) ==
    /\ \A tid \in DOMAIN trks : trks[tid].persistent_id = tid
    /\ \A i, j \in DOMAIN lst : lst[i].persistent_id = lst[j].persistent_id => i = j

\* C5 as stated: over any sequence of tracker operations (reset included) a
\* new track's id is greater than every id the tracker ever assigned, and no
\* two live tracks share an id.
C5_NeverReusedEver ==
    [][ /\ \A id \in NewIds : \A j \in ever_assigned : id > j
        /\ UniqueIds(tracks', returned') ]_vars

\* C5 amended: a new track's id is greater than every id assigned since the
\* latest reset (or since construction), and no two live tracks share an id.
C5_NeverReusedSinceReset ==
    [][ /\ \A id \in NewIds : \A j \in assigned : id > j
        /\ UniqueIds(tracks', returned') ]_vars

\* C5 witness: track 1 is gone and a later track took id 2, not 1
C5_Witness ==
    /\ op = "update"
    /\ 1 \in assigned
    /\ DOMAIN tracks = {2}

\* C6: update removes a track exactly when it went unmatched in this call and
\* its last_seen is more than track_timeout ago; at exactly track_timeout it stays.
C6_ExpiryExactlyAfterTimeout ==
    [][ UpdateStep =>
          \A tid \in DOMAIN tracks :
             (tid \notin DOMAIN tracks')
                <=> ( /\ tid \notin matched_tracks'
                      /\ now' - tracks[tid].last_seen > 2 ) ]_vars

\* C6 witness: one update that removed a track older than the timeout and
\* kept one whose age is exactly the timeout
C6_Witness ==
    /\ op = "update"
    /\ stale_ids # {}
    /\ \E tid \in DOMAIN tracks : now - tracks[tid].last_seen = 2

\* What C7 says of every update: each unmatched detection makes one track with
\* the next unused id, frames_tracked 1 and the detection's confidence
C7_Creation ==
    UpdateStep =>
       /\ next_id' = next_id + Cardinality(UnmatchedDets)
       /\ NewIds = { next_id + Rank(i) : i \in UnmatchedDets }
       /\ Cardinality(NewIds) = Cardinality(UnmatchedDets)
       /\ \A i \in UnmatchedDets :
             /\ next_id + Rank(i) \in DOMAIN tracks'
             /\ tracks'[next_id + Rank(i)].persistent_id = next_id + Rank(i)
             /\ tracks'[next_id + Rank(i)].face = faces'[i]
             /\ tracks'[next_id + Rank(i)].frames_tracked = 1
             /\ tracks'[next_id + Rank(i)].tracking_confidence = faces'[i].confidence

\* C7 as stated: ... and k detections given to an empty tracker yield exactly
\* k tracks with ids 1..k.
C7_EmptyTrackerIdsFromOne ==
    [][ /\ C7_Creation
        /\ (UpdateStep /\ DOMAIN tracks = {}) => DOMAIN tracks' = 1..Len(faces') ]_vars

\* C7 amended: ... and k detections given to a tracker that has assigned no id
\* yet (next_id = 1: newly constructed or just reset) yield exactly k tracks
\* with ids 1..k.
C7_FreshTrackerIdsFromOne ==
    [][ /\ C7_Creation
        /\ (UpdateStep /\ DOMAIN tracks = {} /\ next_id = 1)
              => DOMAIN tracks' = 1..Len(faces') ]_vars

\* C7 witness: two detections, none matched, made tracks 1 and 2
C7_Witness ==
    /\ op = "update"
    /\ Len(faces) = 2
    /\ matched_detections = {}
    /\ DOMAIN tracks = {1, 2}
    /\ tracks[1].face = faces[1] /\ tracks[2].face = faces[2]
    /\ tracks[1].frames_tracked = 1 /\ tracks[2].frames_tracked = 1

\* C8: a track bound by update gains one frame and 0.05 confidence capped at
\* 1.0 and takes the detection, its centroid and the current time; confidence
\* never decreases and stays within [0, 1].
C8_MatchedTrackUpdate ==
    [][ /\ UpdateStep =>
             \A tid \in DOMAIN tracks \cap matched_tracks' :
                /\ tid \in DOMAIN tracks'
                /\ tracks'[tid].frames_tracked = tracks[tid].frames_tracked + 1
                /\ tracks'[tid].tracking_confidence =
                      IF tracks[tid].tracking_confidence + 5 > 100
                      THEN 100 ELSE tracks[tid].tracking_confidence + 5
                /\ tracks'[tid].last_seen = now'
                /\ \E i \in matched_detections' :
                      /\ tracks'[tid].face = faces'[i]
                      /\ tracks'[tid].centroid =
                            <<2 * faces'[i].x + faces'[i].width,
                              2 * faces'[i].y + faces'[i].height>>
        /\ \A tid \in DOMAIN tracks' :
              tracks'[tid].tracking_confidence \in 0..100
        /\ \A tid \in DOMAIN tracks \cap DOMAIN tracks' :
              tracks'[tid].tracking_confidence >= tracks[tid].tracking_confidence ]_vars

\* C8 witness: a matched track whose confidence was capped (0.98 + 0.05 -> 1.0)
C8_Witness ==
    /\ op = "update"
    /\ \E tid \in DOMAIN tracks \cap matched_tracks :
          /\ tracks[tid].frames_tracked = 2
          /\ tracks[tid].tracking_confidence = 100

\* C9: update returns the stored tracks, which are the tracks matched or
\* created in the call plus the old unmatched ones still within track_timeout.
C9_ReturnsSurvivors ==
    [][ UpdateStep =>
          /\ { returned'[i] : i \in DOMAIN returned' }
                = { tracks'[tid] : tid \in DOMAIN tracks' }
          /\ Len(returned') = Cardinality(DOMAIN tracks')
          /\ DOMAIN tracks' =
                matched_tracks' \cup
                { tid \in DOMAIN tracks :
                     /\ tid \notin matched_tracks'
                     /\ now' - tracks[tid].last_seen <= 2 }
          /\ \A tid \in DOMAIN tracks \cap DOMAIN tracks' :
                tid \notin matched_tracks' => tracks'[tid] = tracks[tid] ]_vars

\* C9 witness: the returned list holds an old unmatched track still within the
\* timeout and a track made or matched in this call
C9_Witness ==
    /\ op = "update"
    /\ Len(returned) = 2
    /\ \E i, j \in DOMAIN returned :
          /\ returned[i].persistent_id \notin matched_tracks
          /\ returned[j].persistent_id \in matched_tracks

----------------------------------------------------------------------------
(* Properties of the safety functions *)

\* The four limits on a returned orientation, against the body yaw of the call
WithinSafetyLimits(res, body_yaw) ==
    /\ Abs(res.pitch) <= 40
    /\ Abs(res.roll) <= 40
    /\ Abs(res.yaw) <= 180
    /\ Abs(res.yaw - body_yaw) <= 65

AxisLimit(axis) == IF axis = "yaw" THEN 180 ELSE 40

OutOfRangeAxes(cmd) == {a \in {"yaw", "pitch", "roll"} : Abs(cmd[a]) > AxisLimit(a)}

ViolationsOf(axis) == {i \in 1..Len(violations) : violations[i].axis = axis}

\* C2: execution_node replaces every out-of-range head angle by the nearest
\* bound (yaw to [-180, 180], pitch and roll to [-40, 40]) and records exactly
\* one violation for each out-of-range axis, naming the value it was given; an
\* angle inside its range or exactly on a bound is returned unchanged and
\* records nothing.  (200, -50, 50) becomes (180, -40, 40) with three
\* violations.
C2_ExecutionNodeClamps ==
    exec_in # None =>
        /\ \A a \in {"yaw", "pitch", "roll"} :
              IF exec_in[a] > AxisLimit(a)
              THEN /\ head[a] = AxisLimit(a)
                   /\ Cardinality(ViolationsOf(a)) = 1
                   /\ \A i \in ViolationsOf(a) : violations[i].value = exec_in[a]
              ELSE IF exec_in[a] < 0 - AxisLimit(a)
              THEN /\ head[a] = 0 - AxisLimit(a)
                   /\ Cardinality(ViolationsOf(a)) = 1
                   /\ \A i \in ViolationsOf(a) : violations[i].value = exec_in[a]
              ELSE /\ head[a] = exec_in[a]
                   /\ ViolationsOf(a) = {}
        /\ Len(violations) = Cardinality(OutOfRangeAxes(exec_in))
        /\ exec_in = [yaw |-> 200, pitch |-> -50, roll |-> 50]
              => /\ head = [yaw |-> 180, pitch |-> -40, roll |-> 40]
                 /\ Len(violations) = 3

\* execution_node has returned for (200, -50, 50), all three axes clamped
C2_Witness ==
    /\ exec_in = [yaw |-> 200, pitch |-> -50, roll |-> 50]
    /\ head = [yaw |-> 180, pitch |-> -40, roll |-> 40]
    /\ Len(violations) = 3

\* C3 as stated: for every (yaw, pitch, roll) and every body_yaw, the result of
\* apply_safety_limits has |pitch| <= 40, |roll| <= 40, |yaw| <= 180 and
\* |yaw - body_yaw| <= 65.
C3_LimitsForEveryBodyYaw ==
    kin_result # None => WithinSafetyLimits(kin_result, kin_call.body_yaw)

\* C3, amended: the four limits hold for every (yaw, pitch, roll) and every
\* body_yaw with |body_yaw| <= 245, the body yaws for which the window
\* body_yaw +- 65 meets [-180, 180]; yaw 200 with body_yaw 0 gives yaw 65.
C3_LimitsForBodyYawWithin245 ==
    (kin_result # None /\ Abs(kin_call.body_yaw) <= 245) =>
        /\ WithinSafetyLimits(kin_result, kin_call.body_yaw)
        /\ (kin_call.yaw = 200 /\ kin_call.body_yaw = 0) => kin_result.yaw = 65

\* apply_safety_limits has returned 65 for yaw 200 against body_yaw 0: the
\* absolute clamp gave 180 and the body-relative clamp, the tighter, took over
C3_Witness ==
    /\ kin_result # None
    /\ kin_call.yaw = 200
    /\ kin_call.body_yaw = 0
    /\ kin_result.yaw = 65

----------------------------------------------------------------------------
(* Properties of the control loop *)

\* C1: every head pose the control loop passes to set_target(head=...) has
\* yaw in [-180, 180], pitch in [-40, 40] and roll in [-40, 40], however it was
\* produced, the camera worker's offsets composed on the brain's command
\* included.
C1_HeadTargetWithinEnvelope ==
    head_target # None =>
        /\ head_target.yaw >= -180 /\ head_target.yaw <= 180
        /\ head_target.pitch >= -40 /\ head_target.pitch <= 40
        /\ head_target.roll >= -40 /\ head_target.roll <= 40

----------------------------------------------------------------------------
(* Properties of select_primary_face on its own *)

SelectReturned ==
    /\ kin_call # None
    /\ kin_call.fn = "select_primary_face"
    /\ kin_result # None

ScoreAt(i) == TotalScore(kin_call.tracks[i], FrameWidth, FrameHeight)

SameSizeAndConfidence(a, b) ==
    /\ a.face.width = b.face.width
    /\ a.face.height = b.face.height
    /\ a.tracking_confidence = b.tracking_confidence

SameCentroidAndConfidence(a, b) ==
    /\ a.centroid = b.centroid
    /\ a.tracking_confidence = b.tracking_confidence

\* C11: the id select_primary_face returns is that of a track whose weighted
\* score 0.4*centrality + 0.4*size + 0.2*confidence is the maximum over the
\* list, and of the earliest such track when several share the maximum; a
\* track is never chosen over one that equals it in size and confidence but is
\* more central, nor over one that equals it in position and confidence but is
\* larger.
C11_PrimaryIsFirstMaximum ==
    (SelectReturned /\ Len(kin_call.tracks) > 0) =>
        LET lst == kin_call.tracks
        IN  /\ \E i \in 1..Len(lst) :
                  /\ kin_result.primary_id = <<lst[i].persistent_id>>
                  /\ \A j \in 1..Len(lst) : ScoreAt(j) <= ScoreAt(i)
                  /\ \A j \in 1..(i - 1) : ScoreAt(j) < ScoreAt(i)
            /\ \A i, j \in 1..Len(lst) :
                  ( /\ SameSizeAndConfidence(lst[i], lst[j])
                    /\ Dist2(lst[i].centroid, <<FrameWidth, FrameHeight>>)
                         < Dist2(lst[j].centroid, <<FrameWidth, FrameHeight>>) )
                  => kin_result.primary_id # <<lst[j].persistent_id>>
            /\ \A i, j \in 1..Len(lst) :
                  ( /\ SameCentroidAndConfidence(lst[i], lst[j])
                    /\ lst[i].face.width * lst[i].face.height
                         > lst[j].face.width * lst[j].face.height )
                  => kin_result.primary_id # <<lst[j].persistent_id>>

\* select_primary_face has returned the first of two tracks that share the
\* maximum score, with a lower-scoring track listed before them
C11_Witness ==
    /\ SelectReturned
    /\ Len(kin_call.tracks) = 3
    /\ ScoreAt(1) < ScoreAt(2)
    /\ ScoreAt(2) = ScoreAt(3)
    /\ kin_result.primary_id = <<kin_call.tracks[2].persistent_id>>

----------------------------------------------------------------------------
(* Properties of the kinematics functions on their own *)

Reapplied ==
    /\ kin_call # None
    /\ kin_call.fn = "apply_safety_limits"
    /\ "reapplied_to" \in DOMAIN kin_call
    /\ kin_result # None

\* C19: apply_safety_limits is idempotent: applying it to the angles it
\* returned, with the same body_yaw, returns those angles unchanged, for every
\* input and every body_yaw.
C19_SafetyLimitsIdempotent ==
    Reapplied =>
        /\ kin_result = kin_call.reapplied_to
        /\ kin_result = [ yaw |-> kin_call.yaw, pitch |-> kin_call.pitch, roll |-> kin_call.roll ]

\* apply_safety_limits has been applied a second time to a result that the
\* first application had changed on all three axes
C19_Witness ==
    /\ Reapplied
    /\ kin_call.first_args.yaw # kin_call.reapplied_to.yaw
    /\ kin_call.first_args.pitch # kin_call.reapplied_to.pitch
    /\ kin_call.first_args.roll # kin_call.reapplied_to.roll
    /\ kin_call.body_yaw = 30

SmoothReturned ==
    /\ kin_call # None
    /\ kin_call.fn = "smooth_transition"
    /\ kin_result # None

\* C20: smooth_transition takes the shortest angular path: its result lies in
\* [-180, 180] and equals current + eased_progress * d modulo 360 for a
\* difference d congruent to target - current with |d| <= 180; from 170 to -170
\* at progress 0.5 it returns 180, from -170 to 170 it returns -180, never a
\* value near 0.
C20_ShortestPath ==
    SmoothReturned =>
        LET c == kin_call.current_angle
            t == kin_call.target_angle
            e == EasedProgress(kin_call.progress, kin_call.easing)
            r == kin_result.angle
        IN  /\ r >= -180 /\ r <= 180
            /\ \E d \in -180..180 :
                  /\ (t - c - d) % 360 = 0
                  /\ (r - (c + RoundDiv(d * e, 1000))) % 360 = 0
            /\ (c = 170 /\ t = -170 /\ kin_call.progress = 500) => r = 180
            /\ (c = -170 /\ t = 170 /\ kin_call.progress = 500) => r = -180

\* smooth_transition has returned 180 for the move from 170 to -170 at
\* progress 0.5 with cubic easing
C20_Witness ==
    /\ SmoothReturned
    /\ kin_call.current_angle = 170
    /\ kin_call.target_angle = -170
    /\ kin_call.progress = 500
    /\ kin_call.easing = "cubic"
    /\ kin_result.angle = 180

\* C21: for every current angle, target angle, progress and easing, the angle
\* smooth_transition returns lies in the half-open interval (-180, 180]: it
\* never returns -180.
C21_ResultInHalfOpenInterval ==
    SmoothReturned =>
        /\ kin_result.angle > -180
        /\ kin_result.angle <= 180

\* The angle of the target's direction that the shortest path from the current
\* angle ends on: the target itself, but 180 for the target -180 approached
\* from a positive angle and -180 for the target 180 approached from a negative
\* one
EndOfShortestPath(current_angle, target_angle) ==
    IF target_angle = -180 /\ current_angle > 0 THEN 180
    ELSE IF target_angle = 180 /\ current_angle < 0 THEN -180
    ELSE target_angle

----------------------------------------------------------------------------
(* Further properties of the tracker and of execution_node *)

\* C28: frames_tracked counts only the unbroken run of updates, ending with
\* the latest, that created or matched the track: when an update matches a
\* track that the update before left unmatched, the run starts again and
\* frames_tracked is 1.
C28_MissBreaksRun ==
    [][ Update =>
          \A id \in DOMAIN tracks \cap DOMAIN tracks' :
              (id \notin matched_tracks /\ id \in matched_tracks') =>
                  tracks'[id].frames_tracked = 1
      ]_vars

\* The body yaw the brain works with: BrainState holds none and cognition_node
\* passes body_yaw = 0.0
BrainBodyYaw == 0

C30_ResetFreshStart ==
    [][ /\ Reset => (tracks' = <<>> /\ next_id' = 1)
        /\ (Update /\ op = "reset" /\ Len(faces') >= 1) =>
              /\ tracks = <<>>
              /\ 1 \in DOMAIN tracks'
              /\ tracks'[1].face = faces'[1]
              /\ tracks'[1].frames_tracked = 1
              /\ returned'[1].persistent_id = 1
              /\ next_id' = 1 + Len(faces')
      ]_vars

\* Two ids had been handed out, the tracker was reset, and the update after
\* the reset created track 1 again
C30_Witness ==
    /\ op = "update"
    /\ ever_assigned = {1, 2}
    /\ assigned = {1}
    /\ DOMAIN tracks = {1}
    /\ tracks[1].frames_tracked = 1
    /\ next_id = 2

----------------------------------------------------------------------------
(* Properties of the look-at angles *)

LookAtAnglesReturned ==
    /\ kin_call # None
    /\ kin_call.fn = "calculate_look_at_angles"
    /\ kin_result # None

LookAtWithSafetyReturned ==
    /\ kin_call # None
    /\ kin_call.fn = "calculate_look_at_with_safety"
    /\ kin_result # None

\* The target of the call is on the vertical axis through the head
TargetOnVerticalAxis == kin_call.target_x = 0 /\ kin_call.target_y = 0

\* e in 0..89 is the whole-degree angle whose tangent is rise / run, for
\* rise >= 0 and run > 0: tan(e) <= rise / run < tan(e + 1)
WholeDegreesOf(e, rise, run) ==
    /\ e \in 0..89
    /\ e >= 1 => TanMilli[e] * run <= 1000 * rise
    /\ e <= 88 => TanMilli[e + 1] * run > 1000 * rise

C25_YawRetainedOnVerticalAxis ==
    ((LookAtAnglesReturned \/ LookAtWithSafetyReturned) /\ TargetOnVerticalAxis) =>
        kin_result.yaw = kin_call.current_yaw

----------------------------------------------------------------------------
(* Properties of the estimated depth *)

DepthReturned ==
    /\ kin_call # None
    /\ kin_call.fn = "estimate_3d_position"
    /\ kin_result # None

\* estimate_3d_position has returned for the wider of two boxes
WiderDepthReturned ==
    /\ DepthReturned
    /\ "narrower_z" \in DOMAIN kin_call

\* C26: for a track whose box has a positive width, any frame size and any
\* field of view, the z that estimate_3d_position returns lies in [0.3, 5.0]
\* metres.
C26_DepthWithinRange ==
    DepthReturned =>
        /\ kin_call.track.face.width > 0
        /\ kin_result.z >= 300
        /\ kin_result.z <= 5000

\* A box 4 pixels wide in a 1280-pixel frame with a 60 degree field of view,
\* whose unclamped estimate is beyond 50 m, has been given the depth 5.0 m
C26_Witness ==
    /\ DepthReturned
    /\ kin_call.track.face.width = 4
    /\ kin_call.frame_width = 1280
    /\ kin_call.camera_fov_horizontal = 60
    /\ UnclampedDepth(FocalLengthPixels(1280, 60), 4) > 50000
    /\ kin_result.z = 5000

\* C27 as stated: of two tracks with the same centroid and confidence in the
\* same frame, the one with the strictly wider box gets a strictly smaller z.
C27_WiderIsStrictlyCloser ==
    WiderDepthReturned =>
        /\ kin_call.track.face.width > kin_call.narrower_width
        /\ kin_result.z < kin_call.narrower_z

\* C27, amended: the one with the strictly wider box gets a z that is no
\* larger, and strictly smaller unless both estimates are clamped to the same
\* end of [0.3, 5.0].
C27_WiderIsNoFarther ==
    WiderDepthReturned =>
        /\ kin_call.track.face.width > kin_call.narrower_width
        /\ kin_result.z <= kin_call.narrower_z
        /\ kin_result.z = kin_call.narrower_z => kin_result.z \in {300, 5000}

\* In a 640 x 480 frame a box 200 pixels wide has been given a depth below
\* that of a box 50 pixels wide around the same centre, both inside the range
C27_Witness ==
    /\ WiderDepthReturned
    /\ kin_call.frame_width = 640
    /\ kin_call.narrower_width = 50
    /\ kin_call.track.face.width = 200
    /\ kin_result.z > 300
    /\ kin_result.z < kin_call.narrower_z
    /\ kin_call.narrower_z < 5000

----------------------------------------------------------------------------
(* Properties of cognition_node *)

\* v lies between a and b, ends included
Between(v, a, b) == (a <= v /\ v <= b) \/ (b <= v /\ v <= a)

\* The clamped target of the call that has returned
ClampedTargetOfCall ==
    LET raw == calculate_look_at_angles(kin_call.target_x, kin_call.target_y,
                                        kin_call.target_z)
    IN  apply_safety_limits(raw.yaw, raw.pitch, raw.roll, kin_call.body_yaw)

\* C31: from a head command inside the envelope, every cognition_node cycle,
\* whatever the primary human's position, leaves the head command inside the
\* envelope and HeadCommand never rejects the angles; the look-at result is
\* inside the envelope, lies with its pitch and roll between the current
\* value and the clamped target, and with progress >= 1 is the clamped target
\* exactly.
C31_NeverTowardsUnsafe ==
    /\ HeadCommandValid(head)
    /\ exec_in # None => ~exec_in.raised
    /\ LookAtWithSafetyReturned =>
          /\ HeadCommandValid(kin_result)
          /\ HeadCommandValid(ClampedTargetOfCall)
          /\ Between(kin_result.pitch, kin_call.current_pitch, ClampedTargetOfCall.pitch)
          /\ Between(kin_result.roll, kin_call.current_roll, ClampedTargetOfCall.roll)
          /\ kin_call.progress >= 1000 => kin_result = ClampedTargetOfCall

\* A cycle has run from a head command at pitch -40 with the human overhead
\* (raw pitch -90): nothing was raised and the pitch is still -40
C31_Witness ==
    /\ exec_in # None
    /\ exec_in.human = [x |-> 0, y |-> 100, z |-> 0]
    /\ exec_in.before.pitch = -40
    /\ exec_in.before.yaw # 0
    /\ ~exec_in.raised
    /\ head.pitch = -40
    /\ head.yaw # exec_in.before.yaw

\* C32: with no primary human in the world model, cognition_node leaves the
\* head command (yaw, pitch, roll) exactly as it was and raises nothing, and
\* the whole brain cycle on that state (execution_node included) does the
\* same and records no violation.
C32_HoldsGazeWithoutHuman ==
    [][ /\ (CognitionNode /\ exec_in'.human = None) =>
              /\ head' = head
              /\ ~exec_in'.raised
        /\ LET cycle == graph_invoke(head, None)
            IN  /\ cycle.head = head
                /\ ~cycle.raised
                /\ cycle.violations = <<>>
      ]_vars

\* A cycle without a primary human has run on a head command that earlier
\* cycles had moved to the left and down, and the command is as it was
C32_Witness ==
    /\ exec_in # None
    /\ exec_in.human = None
    /\ ~exec_in.raised
    /\ exec_in.before = head
    /\ head.yaw > 0 /\ head.yaw < 65
    /\ head.pitch > 0 /\ head.pitch < 40

\* C36: cognition_node passes forward = z, left = -x, up = y, so from a head
\* command with yaw 0 a primary human in front and to the right of the camera
\* axis (x > 0) turns the yaw negative, and one to the left turns it positive.
C36_RightIsNegativeYaw ==
    [][ (CognitionNode /\ exec_in'.human # None /\ head.yaw = 0) =>
            (exec_in'.human.z > 0 =>
                /\ exec_in'.human.x > 0 => head'.yaw < 0
                /\ exec_in'.human.x < 0 => head'.yaw > 0)
      ]_vars

----------------------------------------------------------------------------
(* Properties of the matching loop of update *)

UpdateReturned ==
    /\ kin_call # None
    /\ kin_call.fn = "update"
    /\ kin_result # None

\* The entry of the distance matrix for a track of the call and a detection,
\* as the doubled square
PairDist(p) == Dist2(kin_call.tracks[p[1]].centroid, Centroid(kin_call.faces[p[2]]))

\* The distance of the k-th pair bound
BindDist(k) == PairDist(kin_result.binds[k])

\* The entries whose row and column are not set to inf when the loop looks
\* for its k-th minimum
RemainingAt(k) ==
    { p \in (DOMAIN kin_call.tracks) \X (1..Len(kin_call.faces)) :
         \A j \in 1..(k - 1) : /\ kin_result.binds[j][1] # p[1]
                               /\ kin_result.binds[j][2] # p[2] }

\* C35: the pairs of one update are bound in non-decreasing order of
\* distance, each one the smallest entry remaining when it is bound (the
\* first the smallest of the whole matrix) and no farther than
\* max_distance, a distance equal to it included; the loop stops only when
\* nothing remains or the smallest remaining entry exceeds max_distance
C35_GreedyInDistanceOrder ==
    UpdateReturned =>
        LET n == Len(kin_result.binds)
        IN  /\ \A k \in 1..n :
                  /\ kin_result.binds[k] \in RemainingAt(k)
                  /\ \A p \in RemainingAt(k) : BindDist(k) <= PairDist(p)
                  /\ BindDist(k) <= 4 * MaxDistance * MaxDistance
            /\ \A k \in 1..(n - 1) : BindDist(k) <= BindDist(k + 1)
            /\ \A p \in RemainingAt(n + 1) : PairDist(p) > 4 * MaxDistance * MaxDistance
            /\ matched_detections = { kin_result.binds[k][2] : k \in 1..n }

\* Two pairs were bound, the smallest entry of the matrix first, which was
\* in the second row, and then a pair exactly max_distance apart
C35_Witness ==
    /\ UpdateReturned
    /\ Len(kin_result.binds) = 2
    /\ kin_result.binds[1][1] > kin_result.binds[2][1]
    /\ BindDist(1) < BindDist(2)
    /\ BindDist(2) = 4 * MaxDistance * MaxDistance

\* The smaller of two numbers
Smaller(a, b) == IF a < b THEN a ELSE b

\* C38: in one update no track is bound to two detections and no detection
\* to two tracks, the loop binds at most min(number of tracks, number of
\* detections) pairs, and every detection is either bound to a track the
\* tracker held or given a new track, never both
C38_OneToOneAndBounded ==
    UpdateReturned =>
        LET binds == kin_result.binds
            n == Len(binds)
        IN  /\ \A j, k \in 1..n :
                  j # k => /\ binds[j][1] # binds[k][1]
                           /\ binds[j][2] # binds[k][2]
            /\ n <= Smaller(Cardinality(DOMAIN kin_call.tracks), Len(kin_call.faces))
            /\ Cardinality(matched_detections) = n
            /\ Cardinality(kin_result.created) = Len(kin_call.faces) - n
            /\ kin_result.created \cap DOMAIN kin_call.tracks = {}
            /\ \A k \in 1..n : binds[k][1] \in DOMAIN kin_call.tracks
            /\ Cardinality(DOMAIN tracks) + Cardinality(stale_ids)
                  = Cardinality(DOMAIN kin_call.tracks) + Len(kin_call.faces) - n

\* Two tracks were within max_distance of the one detection of the call: one
\* of them was bound and the other left as it was, and no track was created
C38_Witness ==
    /\ UpdateReturned
    /\ Len(kin_call.faces) = 1
    /\ Cardinality({ tid \in DOMAIN kin_call.tracks :
                        PairDist(<<tid, 1>>) <= 4 * MaxDistance * MaxDistance }) = 2
    /\ Len(kin_result.binds) = 1
    /\ kin_result.created = {}

\* The tracks of the call that the matching loop bound
BoundTracks == { kin_result.binds[k][1] : k \in 1..Len(kin_result.binds) }

\* A track of the call not seen for longer than track_timeout when the call
\* was made
WasOverdue(tid) ==
    kin_call.current_time - kin_call.tracks[tid].last_seen > TrackTimeout

\* C39: a track matched or created by an update is in the tracker when that
\* update returns, under its id and with last_seen the time of the call, a
\* matched track that was overdue when the call was made included; the
\* tracks the update removes are the overdue ones it did not match
C39_MatchedOrCreatedSurvives ==
    UpdateReturned =>
        /\ \A tid \in BoundTracks \cup kin_result.created :
              /\ tid \in DOMAIN tracks
              /\ tid \notin stale_ids
              /\ tracks[tid].persistent_id = tid
              /\ tracks[tid].last_seen = kin_call.current_time
        /\ stale_ids = { tid \in DOMAIN kin_call.tracks \ BoundTracks : WasOverdue(tid) }
        /\ DOMAIN tracks = (DOMAIN kin_call.tracks \cup kin_result.created) \ stale_ids

\* A track not seen for 3 s, with track_timeout 2 s, was matched and is
\* still there, while another overdue track of the same call was removed
C39_Witness ==
    /\ UpdateReturned
    /\ \E tid \in BoundTracks :
          /\ WasOverdue(tid)
          /\ tid \in DOMAIN tracks
          /\ tracks[tid].frames_tracked = kin_call.tracks[tid].frames_tracked + 1
    /\ stale_ids # {}

----------------------------------------------------------------------------
(* Properties of add_log *)

AddLogReturned ==
    /\ kin_call # None
    /\ kin_call.fn = "add_log"
    /\ kin_result # None

\* C37: after any number of add_log calls the logs hold at most 100 entries,
\* which carry the messages added last, in the order they were added; and
\* the state given to add_log is after the call what it was before
C37_LastHundredInOrder ==
    AddLogReturned =>
        LET logs  == kin_result.returned.logs
            added == kin_call.message
        IN  /\ Len(logs) <= MaxLogs
            /\ Len(logs) = Smaller(added, MaxLogs)
            /\ \A i \in 1..Len(logs) : logs[i].message = added - Len(logs) + i
            /\ kin_result.given = kin_call.state
            /\ Len(kin_call.state.logs) = Smaller(added - 1, MaxLogs)

\* The 102nd message has been added: the logs hold messages 3 to 102
C37_Witness ==
    /\ AddLogReturned
    /\ kin_call.message = 102
    /\ Len(kin_call.state.logs) = MaxLogs
    /\ Len(kin_result.returned.logs) = MaxLogs
    /\ kin_result.returned.logs[1].message = 3
    /\ kin_result.returned.logs[MaxLogs].message = 102

----------------------------------------------------------------------------
(* Properties of start() and stop() *)

\* C40: whatever start() and stop() calls are made, at most one loop thread
\* is running at any time, and once stop() has returned no loop assigns to
\* the offsets any more
C40_OneLoopAndQuietAfterStop ==
    /\ Cardinality(RunningLoops) <= 1
    /\ updates_after_stop = 0

\* C40, as the code has it: a loop started by the only start() call made
\* so far runs until stop() is called; once stop() has returned the stop
\* event is set, and the loops then make no more assignments to the offsets
\* than one for each loop that was inside a pass, the pass it completes
C40_LoopPerStartAndLastPass ==
    /\ (Len(worker_threads) = 1 /\ pc_caller = "started") =>
          /\ RunningLoops = {1}
          /\ ~worker_stop
    /\ pc_caller = "stopped" =>
          /\ worker_stop
          /\ updates_after_stop + Cardinality(LoopsInPass) <= Len(worker_threads)

\* start() was called once; stop() returned on its timeout with the loop
\* inside a pass, the pass then moved the offsets, and the loop has left
C40_Witness ==
    /\ pc_caller = "stopped"
    /\ Len(worker_threads) = 1
    /\ worker_threads[1] = "exited"
    /\ updates_after_stop = 1
    /\ face_tracking_offsets # NeutralOffsets

----------------------------------------------------------------------------
(* Properties of the tracking switch *)

\* C33: once set_head_tracking_enabled(False) has been called and the switch
\* stays off, then, however the call fell between the worker's three reads
\* of the switch, the published offsets become the neutral pose and stay
\* neutral from some moment on
C33_SwitchedOffReturnsToNeutral ==
    (<>[](~is_head_tracking_enabled)) => <>[](face_tracking_offsets = NeutralOffsets)

\* The switch went off between the test of line 126 and the assignment of
\* line 132, while a return to neutral was under way: the test did not set
\* the timers back, and the pass is about to record the switch as off
C33_Witness ==
    /\ pc_worker = "record_switch"
    /\ ~is_head_tracking_enabled
    /\ previous_tracking_state
    /\ time_since_face_lost # None
    /\ time_since_face_lost[1] > 0
    /\ elapsed_interpolation # None
    /\ face_tracking_offsets # NeutralOffsets

----------------------------------------------------------------------------
(* Properties of a pass with the brain switched off *)

----------------------------------------------------------------------------
(* Properties of the camera worker's return to neutral *)

\* A pass that ran the detector and got a face from it
FacePass ==
    /\ WatchedWorkerIteration
    /\ worker_saw' \in {"face", "look_at_error"}

\* A pass that had a frame and ran to its end without detecting a face
NoFacePass ==
    /\ WatchedWorkerIteration
    /\ worker_saw' \in {"no_face", "frame"}

\* The pass sees tracking switched off since the pass before
SeesTrackingSwitchedOff == previous_tracking_state /\ ~is_head_tracking_enabled

AbsentLongEnough ==
    /\ time_since_face_lost # None
    /\ time_since_face_lost[1] >= FaceLostDelay

\* C15: while tracking is enabled, a pass that detects no face before the
\* face has been absent for face_lost_delay (1.5 s) leaves the published
\* offsets as they are and starts no interpolation; an interpolation is only
\* ever under way once the absence has reached face_lost_delay.
C15_HoldsLastGaze ==
    [][ /\ ( /\ WatchedWorkerIteration
             /\ is_head_tracking_enabled
             /\ worker_saw' \notin {"face", "look_at_error"}
             /\ ~AbsentLongEnough )
          => /\ face_tracking_offsets' = face_tracking_offsets
             /\ elapsed_interpolation' = None
        /\ (elapsed_interpolation' # None) => AbsentLongEnough'
      ]_vars

\* With tracking enabled, the latest pass found no face, the face has been
\* gone for 1.0 s, and the offsets still hold the tracked gaze with no
\* interpolation started
C15_Witness ==
    /\ is_head_tracking_enabled
    /\ worker_saw = "no_face"
    /\ time_since_face_lost = <<2>>
    /\ face_tracking_offsets.pitch = 30
    /\ elapsed_interpolation = None

\* What C16 says of one pass without a face: past the delay the pass puts the
\* offsets at progress t = min(1, elapsed / 2.0) of one and the same
\* interpolation, which it starts from the current offsets if none is under
\* way; at t = 1 the offsets are neutral and the timers cleared; and with the
\* timers cleared no interpolation starts.
OneInterpolationPass ==
    /\ AbsentLongEnough =>
          LET el == IF elapsed_interpolation = None THEN 0 ELSE elapsed_interpolation[1]
              sp == IF elapsed_interpolation = None THEN face_tracking_offsets
                    ELSE interpolation_start_pose
          IN  /\ face_tracking_offsets' = InterpolateToNeutral(sp, el)
              /\ IF el >= InterpolationDuration
                 THEN /\ face_tracking_offsets' = NeutralOffsets
                      /\ time_since_face_lost' = None
                      /\ elapsed_interpolation' = None
                      /\ interpolation_start_pose' = None
                 ELSE /\ elapsed_interpolation' = <<el>>
                      /\ interpolation_start_pose' = sp
    /\ time_since_face_lost = None =>
          /\ time_since_face_lost' = None
          /\ elapsed_interpolation' = None
          /\ face_tracking_offsets' = face_tracking_offsets

\* C16 as stated: once the face has been absent for 1.5 s and while no face
\* is detected, exactly one interpolation runs: no second interpolation
\* starts before the next detection.
C16_OneInterpolationWhileAbsent ==
    returns_started <= 1

\* C16, amended: the same, for passes that do not see tracking switched off
\* since the pass before; the timers count up between passes and are never
\* set back.
C16_OneInterpolationUnlessSwitchedOff ==
    [][ /\ (NoFacePass /\ ~SeesTrackingSwitchedOff) => OneInterpolationPass
        /\ (WorkerClockTick /\ elapsed_interpolation # None) =>
              /\ elapsed_interpolation' # None
              /\ elapsed_interpolation'[1] >= elapsed_interpolation[1]
      ]_vars

\* An interpolation that started from pitch 30 is halfway (1.0 s of 2.0 s):
\* the latest pass found no face and put the pitch at 15
C16_Witness ==
    /\ worker_saw = "no_face"
    /\ elapsed_interpolation = <<2>>
    /\ interpolation_start_pose # None
    /\ interpolation_start_pose.pitch = 30
    /\ face_tracking_offsets.pitch = 15

\* C17: a pass that detects a face cancels the interpolation (its start time
\* is cleared) and restarts the absence at zero; and every pass that starts
\* an interpolation does so with the absence at face_lost_delay or more and
\* takes the offsets of that moment as the start pose, whatever start pose an
\* earlier interpolation left behind.
C17_RedetectionCancels ==
    [][ /\ FacePass =>
              /\ elapsed_interpolation' = None
              /\ time_since_face_lost' = <<0>>
        /\ (WatchedWorkerIteration /\ elapsed_interpolation = None
                                   /\ elapsed_interpolation' # None) =>
              /\ AbsentLongEnough
              /\ ~FacePass
              /\ interpolation_start_pose' = face_tracking_offsets
              /\ face_tracking_offsets' = face_tracking_offsets
      ]_vars

\* A detection has cancelled an interpolation that was under way: the start
\* time is cleared, the absence restarted, and the start pose of the cancelled
\* interpolation is still stored and differs from the offsets
C17_Witness ==
    /\ is_head_tracking_enabled
    /\ worker_saw = "face"
    /\ elapsed_interpolation = None
    /\ time_since_face_lost = <<0>>
    /\ interpolation_start_pose # None
    /\ interpolation_start_pose # face_tracking_offsets

----------------------------------------------------------------------------
(* Properties of what a control pass waits for *)

\* C14: a pass of the control loop gets tracking results only by reading what
\* the camera worker published last: no pass takes a camera frame or runs
\* face detection itself.
C14_TickOnlyReadsPublished ==
    tick_calls \subseteq {"get_face_tracking_offsets"}

----------------------------------------------------------------------------
(* Properties of the shutdown *)

\* C18: the control loop runs a pass only while its stop event is clear and
\* the camera worker only while its own is; once the control loop has seen
\* the stop event, the head pose commanded last is the neutral one (yaw =
\* pitch = roll = 0), that command comes before the camera worker is told to
\* stop, and run() ends with the neutral pose commanded and the worker told to
\* stop.
C18_NeutralPoseThenWorkerStop ==
    /\ pc_main \in {"after_loop", "stopped"} =>
          /\ stop_event
          /\ head_target = NeutralHead
    /\ pc_main = "after_loop" => ~worker_stop
    /\ pc_main = "stopped" => worker_stop
    /\ worker_stop => pc_main \in {"stopped", "crashed"}
    /\ ENABLED ControlTick => ~stop_event
    /\ ENABLED WorkerIteration => ~worker_stop

\* The loop has ended on the stop event while the brain's command and the
\* tracking offsets were away from neutral: the neutral pose is commanded and
\* the camera worker is still running
C18_Witness ==
    /\ pc_main = "after_loop"
    /\ stop_event
    /\ head # NeutralHead
    /\ face_tracking_offsets.pitch # 0
    /\ head_target = NeutralHead
    /\ ~worker_stop

----------------------------------------------------------------------------
(* Properties of the two locks *)

WorkerInSection == pc_worker \in {"smoothing_locked", "capture_locked", "assign_locked"}

\* C12: every value get_face_tracking_offsets returns is a complete 6-tuple
\* and is the tuple the worker built for its latest assignment (the all-zero
\* tuple before the first), read while the worker is outside its critical
\* sections; and the stored offsets are at every moment one such tuple, never
\* components of two.
C12_NoTornRead ==
    [][ /\ (ReturnFaceTrackingOffsets =>
              /\ DOMAIN read_offsets' = OffsetFields
              /\ read_offsets' = last_published
              /\ ~WorkerInSection)
        /\ face_tracking_offsets' = last_published'
      ]_vars

\* A caller that had to wait for the worker's critical section has been
\* returned the tuple the worker assigned, away from neutral
C12_Witness ==
    /\ pc_reader = "idle"
    /\ sections_waited >= 1
    /\ read_offsets # None
    /\ read_offsets = last_published
    /\ read_offsets.pitch # 0

\* The worker holds a lock exactly in the steps between a with statement's
\* entry and its end, which only read or write the shared frame and offsets
\* (never while it takes a frame, detects, computes or sleeps), a caller
\* likewise, and nobody holds both locks
LockDiscipline ==
    /\ (frame_lock = "worker") <=> (pc_worker = "frame_locked")
    /\ (face_tracking_lock = "worker") <=> WorkerInSection
    /\ (frame_lock = "reader") <=> (pc_reader = "frame_locked")
    /\ (face_tracking_lock = "reader") <=> (pc_reader = "offsets_locked")
    /\ ~(frame_lock = "worker" /\ face_tracking_lock = "worker")
    /\ ~(frame_lock = "reader" /\ face_tracking_lock = "reader")

\* Whoever holds a lock can take the step that releases it, and some step is
\* always possible
NoDeadlock ==
    /\ frame_lock = "worker" => ENABLED WorkerStoreFrame
    /\ face_tracking_lock = "worker" =>
          ENABLED (WorkerSmooth \/ WorkerCaptureStartPose \/ WorkerAssignInterpolated)
    /\ frame_lock = "reader" => ENABLED ReturnLatestFrame
    /\ face_tracking_lock = "reader" => ENABLED ReturnFaceTrackingOffsets
    /\ ENABLED ThreadsNext

====
